---- MODULE Spec2Model ----
(***************************************************************************)
(* Model of the corrective-RAG search engine of api/whatsapp_service.py    *)
(* (class OptimizedPineconeSearchEngine): one crag_search call runs        *)
(* analyze -> rewrite -> parallel multi-query search -> rerank -> assess   *)
(* -> corrective filter.                                                   *)
(*                                                                         *)
(* Conventions.  Scores are in hundredths (0.3 is 30).  A text is a        *)
(* sequence of words; "x in text" of the code is membership of a word.     *)
(* Optional[float] is a sequence of length 0 (None) or 1.                  *)
(***************************************************************************)
EXTENDS Integers, Sequences, FiniteSets, TLC

(***************************************************************************)
(* Bounds of the model.                                                    *)
(***************************************************************************)
\* top_k of a crag_search call ranges over 1..MaxTopK
MaxTopK == 3
\* an index response holds at most MaxMatches raw matches
MaxMatches == 1
\* an LLM reply that is a JSON array holds at most MaxLLMItems entries
MaxLLMItems == 4
\* crag_search calls made on the engine
MaxCalls == 1
\* a direct call of _apply_corrective_filtering: list length and top_k
MaxFilterLen == 4
MaxFilterTopK == 9
\* a direct call of advanced_reranking: list length
MaxRerankLen == 2
\* a direct call of assess_result_quality: list length
MaxAssessLen == 3
\* the clock of the embedding cache advances at most MaxTicks times
MaxTicks == 4
\* request threads that run crag_search on the one engine at the same time
MaxThreads == 2
\* rows inserted into conversation_history
MaxInserts == 8
\* results of the CRAGResult handed to the tool enhanced_uws_search
MaxToolLen == 4
\* rows of message_feedback created through the feedback endpoint
MaxFeedbackRows == 1
\* direct calls of FeedbackManager.add_feedback
MaxFeedbackCalls == 3

(***************************************************************************)
(* Program constants.                                                      *)
(***************************************************************************)
\* future.result(timeout=10)
SubSearchTimeout == 10
\* len(answer) > 2
MinAnswerLen == 2
\* top_k // len(queries) + 3
OverFetch == 3
\* enhanced_queries[:3], fallback_queries[:3]
MaxQueries == 3
\* len(enhanced_queries) >= 2
MinLLMQueries == 2

None == "None"

Min(a, b) == IF a <= b THEN a ELSE b
Max(a, b) == IF a >= b THEN a ELSE b
Range(s) == {s[i] : i \in 1..Len(s)}

\* how a call ends: it returns a value or an exception leaves it
Returned(v) == [raised |-> FALSE, value |-> v]
Raised == [raised |-> TRUE, value |-> <<>>]

(***************************************************************************)
(* Texts.                                                                  *)
(***************************************************************************)
\* str.lower() on the words of the vocabulary
Lower(w) == CASE w = "UWS" -> "uws"
              [] w = "CAS" -> "cas"
              [] OTHER -> w

LowerText(t) == [i \in 1..Len(t) |-> Lower(t[i])]

RECURSIVE CharLen(_)
\* len(text): the characters of the words and the blanks between them
CharLen(t) == IF t = <<>> THEN 0
              ELSE Len(Head(t)) + (IF Len(t) > 1 THEN 1 ELSE 0) + CharLen(Tail(t))

(***************************************************************************)
(* EnhancedQueryAnalyzer.analyze_query                                     *)
(***************************************************************************)
\* intent_patterns, in declaration order, on the vocabulary of the model
QueryTypes == <<"admissions", "courses", "fees_funding", "visa_immigration",
                "accommodation", "campus_facilities", "student_support",
                "careers", "urgent", "complaint", "greeting">>

intent_patterns(type) ==
    CASE type = "admissions"        -> {"apply", "deadline"}
      [] type = "courses"           -> {"course", "masters"}
      [] type = "fees_funding"      -> {"fee", "scholarship"}
      [] type = "visa_immigration"  -> {"visa", "cas", "interview"}
      [] type = "accommodation"     -> {"accommodation"}
      [] type = "campus_facilities" -> {"campus", "library"}
      [] type = "student_support"   -> {"support"}
      [] type = "careers"           -> {"career"}
      [] type = "urgent"            -> {"urgent", "deadline"}
      [] type = "complaint"         -> {"problem"}
      [] type = "greeting"          -> {"hello"}

\* entity_patterns: course_names, study_levels, locations
entity_patterns == {"nursing", "masters", "paisley"}

analyze_query(query) ==
    LET query_lower == LowerText(query)
        detected == SelectSeq(QueryTypes,
                      LAMBDA t : Range(query_lower) \cap intent_patterns(t) # {})
    IN [primary_type |-> IF detected # <<>> THEN Head(detected) ELSE "general_info",
        all_types    |-> detected,
        entities     |-> Range(query_lower) \cap entity_patterns,
        word_count   |-> Len(query)]

(***************************************************************************)
(* OptimizedPineconeSearchEngine.generate_enhanced_queries                 *)
(***************************************************************************)
\* uws_knowledge_map[type]['boost_terms'][0]
uws_knowledge_map == [admissions       |-> <<"UWS", "application">>,
                      courses          |-> <<"UWS", "courses">>,
                      fees_funding     |-> <<"UWS", "fees">>,
                      visa_immigration |-> <<"student", "visa">>]

\* the queries an LLM reply can hold
LLMQueries == << <<"UWS", "visa", "requirements">>, <<"CAS", "interview">>,
                 <<"student", "visa", "process">>, <<"UWS", "international">>,
                 <<"visa", "paisley">> >>

\* what chat.completions.create can do: raise (API error, timeout), answer
\* without content, answer text that is no JSON, a JSON value that is no
\* array, or a JSON array
LLMReplies ==
    {[kind |-> k, items |-> <<>>] :
        k \in {"api_error", "no_content", "not_json", "json_object"}}
    \cup {[kind |-> "json_array", items |-> SubSeq(LLMQueries, 1, n)] :
            n \in 0..Min(MaxLLMItems, Len(LLMQueries))}

\* json.loads(result): JSONDecodeError or the parsed value
json_loads(reply) ==
    IF reply.kind = "not_json" THEN [ok |-> FALSE, is_list |-> FALSE, items |-> <<>>]
    ELSE [ok |-> TRUE, is_list |-> reply.kind = "json_array", items |-> reply.items]

\* lines 404-417
fallback_queries(query, query_type) ==
    LET q1 == <<query>>
        q2 == IF "UWS" \notin Range(query) /\ "university" \notin Range(LowerText(query))
              THEN Append(q1, <<"UWS">> \o query) ELSE q1
        q3 == IF query_type \in DOMAIN uws_knowledge_map
              THEN Append(q2, query \o uws_knowledge_map[query_type]) ELSE q2
    IN SubSeq(q3, 1, Min(MaxQueries, Len(q3)))

\* line 396: the reply the rewrite accepts
accepted_reply(reply) ==
    reply.kind = "json_array" /\ Len(reply.items) >= MinLLMQueries

\* mutant: no outer try, an exception of the LLM call leaves the function
generate_enhanced_queries_no_try(query, query_analysis, reply) ==
    IF reply.kind \in {"api_error", "no_content"} THEN Raised
    ELSE IF json_loads(reply).ok /\ accepted_reply(reply)
         THEN Returned(SubSeq(reply.items, 1, Min(MaxQueries, Len(reply.items))))
         ELSE Returned(fallback_queries(query, query_analysis.primary_type))

\* mutant: the accepted list is returned whole, without [:3]
generate_enhanced_queries_no_cap(query, query_analysis, reply) ==
    IF reply.kind \in {"api_error", "no_content"}
    THEN Returned(fallback_queries(query, query_analysis.primary_type))
    ELSE IF json_loads(reply).ok /\ accepted_reply(reply)
         THEN Returned(reply.items)
         ELSE Returned(fallback_queries(query, query_analysis.primary_type))

\* lines 342-417: the outer try catches every Exception of the LLM call and
\* of reading the reply, the inner one the JSONDecodeError
generate_enhanced_queries(query, query_analysis, reply) ==
    LET query_type == query_analysis.primary_type
        parsed == json_loads(reply)
    IN IF reply.kind \in {"api_error", "no_content"}
       THEN Returned(fallback_queries(query, query_type))
       ELSE IF parsed.ok /\ accepted_reply(reply)
            THEN Returned(SubSeq(parsed.items, 1, Min(MaxQueries, Len(parsed.items))))
            ELSE Returned(fallback_queries(query, query_type))

(***************************************************************************)
(* SearchResult and the vector index                                       *)
(***************************************************************************)
SearchResult(content, score) ==
    [content |-> content, score |-> score, rerank_score |-> <<>>]

\* metadata['answer'] of the indexed vectors: absent, too short, or a passage
IndexAnswers == {<<>>, <<"ok">>,
                 <<"visa", "interview", "process">>,
                 <<"international", "visa", "fees">>,
                 <<"library", "paisley">>}

\* cosine similarity of a match
IndexScores == {20, 80}

RawMatches == [answer : IndexAnswers, score : IndexScores]

\* index.query(vector, top_k=k): at most k matches, best first
IndexResponses(k) ==
    UNION {{m \in [1..n -> RawMatches] :
               \A i \in 1..(n - 1) : m[i].score >= m[i + 1].score} :
           n \in 0..Min(MaxMatches, k)}

\* seconds a sub-search runs before it completes
Durations == {5, 15}

\* what can happen inside one search_single_query: the embedding call fails
\* (get_embeddings returns []), index.query raises, or it returns matches
SubSearchOutcomes(k) ==
    {[embedding |-> "failed", index |-> "not_called", matches |-> <<>>],
     [embedding |-> "ok", index |-> "error", matches |-> <<>>]}
    \cup {[embedding |-> "ok", index |-> "ok", matches |-> m] :
            m \in IndexResponses(k)}

\* lines 440-468: a match becomes a SearchResult only if its answer is set
\* and longer than 2 characters
convert_matches(matches) ==
    LET kept == SelectSeq(matches,
                  LAMBDA m : m.answer # <<>> /\ CharLen(m.answer) > MinAnswerLen)
    IN [i \in 1..Len(kept) |-> SearchResult(kept[i].answer, kept[i].score)]

\* line 426: query_embedding = self.get_embeddings(query), [] when the
\* embedding call failed (lines 335-337)
query_embedding_of(outcome) ==
    IF outcome.embedding = "ok" THEN <<"vector">> ELSE <<>>

\* the sub-search without the test of lines 427-428
index_queried_always(query_embedding) == TRUE

\* lines 427-436: `if not query_embedding: return []` stands before
\* self.index.query(vector=query_embedding, ...)
index_queried(query_embedding) == query_embedding # <<>>

\* lines 424-471: every failure is caught and yields []
search_single_query(outcome) ==
    IF ~index_queried(query_embedding_of(outcome)) THEN Returned(<<>>)
    ELSE IF outcome.index = "error" THEN Returned(<<>>)
    ELSE Returned(convert_matches(outcome.matches))

\* hashlib.md5(result.content.encode()).hexdigest(): equal for equal contents
content_hash(content) == <<"md5", content>>

\* mutant: the later duplicate replaces the earlier one whatever its score
merge_result_last_wins(all, result) ==
    LET h == content_hash(result.content)
        at == {i \in 1..Len(all) : all[i].key = h}
    IN IF at = {} THEN Append(all, [key |-> h, value |-> result])
       ELSE [all EXCEPT ![CHOOSE j \in at : TRUE].value = result]

\* lines 483-485: all_results is a dict in insertion order, here a sequence
\* of [key, value]; an existing key keeps its position
merge_result(all, result) ==
    LET h == content_hash(result.content)
        at == {i \in 1..Len(all) : all[i].key = h}
    IN IF at = {} THEN Append(all, [key |-> h, value |-> result])
       ELSE LET i == CHOOSE j \in at : TRUE
            IN IF result.score > all[i].value.score
               THEN [all EXCEPT ![i].value = result]
               ELSE all

\* mutant: the results of a future replace the dict instead of joining it
merge_results_overwrite(all, results) ==
    [i \in 1..Len(results) |->
        [key |-> content_hash(results[i].content), value |-> results[i]]]

RECURSIVE merge_results(_, _)
\* the for loop of line 481 over one future's results
merge_results(all, results) ==
    IF results = <<>> THEN all
    ELSE merge_results(merge_result(all, Head(results)), Tail(results))

\* sorted(seq, key=..., reverse=True), keys[i] being the key of seq[i]:
\* stable, equal keys keep their order
SortedDesc(seq, keys) ==
    LET n == Len(seq)
        pos(i) == 1 + Cardinality({j \in 1..n :
                        \/ keys[j] > keys[i]
                        \/ keys[j] = keys[i] /\ j < i})
    IN [p \in 1..n |-> seq[CHOOSE i \in 1..n : pos(i) = p]]

Prefix(seq, n) == SubSeq(seq, 1, Min(Max(n, 0), Len(seq)))

\* mutant: the merged results are cut without being sorted
final_results_unsorted(all, top_k) ==
    Prefix([i \in 1..Len(all) |-> all[i].value], top_k)

\* lines 490-491
final_results(all, top_k) ==
    Prefix(SortedDesc([i \in 1..Len(all) |-> all[i].value],
                      [i \in 1..Len(all) |-> all[i].value.score]), top_k)

(***************************************************************************)
(* advanced_reranking                                                      *)
(***************************************************************************)
\* scores of the cross-encoder (unbounded, may be 0 or negative)
RerankScores == {-50, 0, 60}

\* rerank_score += 0.5 / += 0.3
InternationalBoost == 50
StudyLevelBoost == 30

\* what reranker.predict(pairs) can do for n pairs: raise, return one score
\* per pair, or return too few scores (float(rerank_scores[i]) then raises
\* after the first scores were applied)
RerankOutcomes(n) ==
    {[kind |-> "error", scores |-> <<>>]}
    \cup {[kind |-> "scores", scores |-> s] : s \in [1..n -> RerankScores]}
    \cup {[kind |-> "scores", scores |-> s] : s \in [1..(n - 1) -> RerankScores]}

\* lines 498-500 and 539-541: rerank_score := score, order unchanged
pass_through(results) ==
    [i \in 1..Len(results) |-> [results[i] EXCEPT !.rerank_score = <<results[i].score>>]]

\* lines 520-528
boosted(result, model_score, user_context) ==
    LET content_lower == Range(LowerText(result.content))
        b1 == IF user_context.is_international /\ "international" \in content_lower
              THEN InternationalBoost ELSE 0
        b2 == IF user_context.study_level # None
                 /\ user_context.study_level \in content_lower
              THEN StudyLevelBoost ELSE 0
    IN [result EXCEPT !.rerank_score = <<model_score + b1 + b2>>]

\* mutant: the scores are applied but the results are not sorted
scored_not_sorted(results, scores, user_context) ==
    [i \in 1..Len(results) |-> boosted(results[i], scores[i], user_context)]

\* lines 520-531: the scores are applied and the results sorted by them
scored_and_sorted(results, scores, user_context) ==
    LET scored == [i \in 1..Len(results) |->
                      boosted(results[i], scores[i], user_context)]
    IN SortedDesc(scored, [i \in 1..Len(scored) |-> scored[i].rerank_score[1]])

\* predict raises, or rerank_scores[i] raises IndexError
rerank_failed(results, outcome) ==
    outcome.kind = "error" \/ Len(outcome.scores) < Len(results)

\* mutant: no try, a failure of the rerank model leaves the function
advanced_reranking_no_try(results, user_context, reranker, outcome) ==
    IF results = <<>> \/ reranker = None THEN Returned(pass_through(results))
    ELSE IF rerank_failed(results, outcome) THEN Raised
         ELSE Returned(scored_and_sorted(results, outcome.scores, user_context))

\* mutant: the except branch keeps the model scores applied before the failure
advanced_reranking_partial(results, user_context, reranker, outcome) ==
    IF results = <<>> \/ reranker = None THEN Returned(pass_through(results))
    ELSE IF rerank_failed(results, outcome)
         THEN Returned([i \in 1..Len(results) |->
                 IF i <= Len(outcome.scores)
                 THEN boosted(results[i], outcome.scores[i], user_context)
                 ELSE [results[i] EXCEPT !.rerank_score = <<results[i].score>>]])
         ELSE Returned(scored_and_sorted(results, outcome.scores, user_context))

\* lines 494-541: the try catches every Exception of the model call and of
\* applying its scores
advanced_reranking(results, user_context, reranker, outcome) ==
    IF results = <<>> \/ reranker = None THEN Returned(pass_through(results))
    ELSE IF rerank_failed(results, outcome)
         THEN Returned(pass_through(results))
         ELSE Returned(scored_and_sorted(results, outcome.scores, user_context))

(***************************************************************************)
(* assess_result_quality                                                   *)
(***************************************************************************)
score_threshold_high == 70
score_threshold_medium == 50
score_threshold_low == 30
\* overlap >= len(query_terms) * 0.3, as OverlapNum/OverlapDen
OverlapNum == 3
OverlapDen == 10
\* results[:3]
AssessTop == 3

\* results[0].rerank_score or results[0].score: None and 0.0 are both falsy
top_score_of(result) ==
    IF result.rerank_score # <<>> /\ result.rerank_score[1] # 0
    THEN result.rerank_score[1] ELSE result.score

content_matches_of(query, results) ==
    LET query_terms == Range(LowerText(query))
        top == Prefix(results, AssessTop)
    IN Cardinality({i \in 1..Len(top) :
          OverlapDen * Cardinality(query_terms \cap Range(LowerText(top[i].content)))
             >= OverlapNum * Cardinality(query_terms)})

entities_found_of(results, query_analysis) ==
    query_analysis.entities \cap Range(LowerText(results[1].content)) # {}

\* lines 581-588
relevant_keywords_found_of(query, results) ==
    Cardinality({"cas", "interview", "visa", "process"}
                \cap Range(LowerText(query))
                \cap Range(LowerText(results[1].content)))

\* mutant: the comparison of the LOW branch is turned round
confidence_of_low_flipped(top_score, content_matches, keywords, entities_found) ==
    IF top_score >= score_threshold_high /\ (content_matches >= 2 \/ keywords >= 2)
    THEN "high"
    ELSE IF top_score >= score_threshold_medium
            /\ (content_matches >= 1 \/ keywords >= 1 \/ entities_found)
    THEN "medium"
    ELSE IF top_score < score_threshold_low \/ content_matches >= 1 \/ keywords >= 1
    THEN "low"
    ELSE "none"

\* the MEDIUM branch with a strict score comparison
confidence_of_medium_strict(top_score, content_matches, keywords, entities_found) ==
    IF top_score >= score_threshold_high /\ (content_matches >= 2 \/ keywords >= 2)
    THEN "high"
    ELSE IF top_score > score_threshold_medium
            /\ (content_matches >= 1 \/ keywords >= 1 \/ entities_found)
    THEN "medium"
    ELSE IF top_score >= score_threshold_low \/ content_matches >= 1 \/ keywords >= 1
    THEN "low"
    ELSE "none"

\* lines 592-601
confidence_of(top_score, content_matches, keywords, entities_found) ==
    IF top_score >= score_threshold_high /\ (content_matches >= 2 \/ keywords >= 2)
    THEN "high"
    ELSE IF top_score >= score_threshold_medium
            /\ (content_matches >= 1 \/ keywords >= 1 \/ entities_found)
    THEN "medium"
    ELSE IF top_score >= score_threshold_low \/ content_matches >= 1 \/ keywords >= 1
    THEN "low"
    ELSE "none"

assess_result_quality(query, results, query_analysis) ==
    IF results = <<>> THEN "none"
    ELSE confidence_of(top_score_of(results[1]),
                       content_matches_of(query, results),
                       relevant_keywords_found_of(query, results),
                       entities_found_of(results, query_analysis))

(***************************************************************************)
(* _apply_corrective_filtering                                             *)
(***************************************************************************)
threshold_high == 30
threshold_medium == 25
threshold_low == 20
threshold_none == 10

threshold_of(confidence) ==
    CASE confidence = "high"   -> threshold_high
      [] confidence = "medium" -> threshold_medium
      [] confidence = "low"    -> threshold_low
      [] OTHER                 -> threshold_none

\* the HIGH cap taken from the number of candidates searched, 2 * top_k
max_results_of_candidates(results, confidence, top_k) ==
    CASE confidence = "high"   -> 2 * top_k
      [] confidence = "medium" -> Max(3, top_k \div 2)
      [] confidence = "low"    -> Min(3, Max(2, top_k \div 3))
      [] OTHER                 -> Min(2, Len(results))

\* lines 659-672
max_results_of(results, confidence, top_k) ==
    CASE confidence = "high"   -> top_k
      [] confidence = "medium" -> Max(3, top_k \div 2)
      [] confidence = "low"    -> Min(3, Max(2, top_k \div 3))
      [] OTHER                 -> Min(2, Len(results))

score_to_use(result) ==
    IF result.rerank_score # <<>> THEN result.rerank_score[1] ELSE result.score

\* mutant: no override when nothing passes the threshold
apply_corrective_filtering_no_override(results, confidence, top_k) ==
    Prefix(SelectSeq(results, LAMBDA r : score_to_use(r) > threshold_of(confidence)),
           max_results_of(results, confidence, top_k))

\* mutant: the final cut [:max_results] is missing
apply_corrective_filtering_no_cap(results, confidence, top_k) ==
    LET passed == SelectSeq(results,
                    LAMBDA r : score_to_use(r) > threshold_of(confidence))
    IN IF passed = <<>> /\ results # <<>>
       THEN Prefix(results, Min(2, Len(results)))
       ELSE passed

\* mutant: the kept results are sorted again, by the vector score
apply_corrective_filtering_resorted(results, confidence, top_k) ==
    LET passed == SelectSeq(results,
                    LAMBDA r : score_to_use(r) > threshold_of(confidence))
        filtered == IF passed = <<>> /\ results # <<>>
                    THEN Prefix(results, Min(2, Len(results)))
                    ELSE passed
    IN Prefix(SortedDesc(filtered, [i \in 1..Len(filtered) |-> filtered[i].score]),
              max_results_of(results, confidence, top_k))

apply_corrective_filtering(results, confidence, top_k) ==
    LET passed == SelectSeq(results,
                    LAMBDA r : score_to_use(r) > threshold_of(confidence))
        filtered == IF passed = <<>> /\ results # <<>>
                    THEN Prefix(results, Min(2, Len(results)))
                    ELSE passed
    IN Prefix(filtered, max_results_of(results, confidence, top_k))

(***************************************************************************)
(* State                                                                   *)
(***************************************************************************)
VARIABLES
    search_engine,     \* the module-level search_engine, None when its construction failed
    reranker,          \* self.reranker: "model", or None when loading failed
    search_metrics,    \* self.search_metrics
    pc,                \* where the crag_search call stands
    query,             \* argument query
    user_context,      \* argument user_context
    top_k,             \* argument top_k
    query_analysis,    \* local query_analysis
    llm_reply,         \* generate_enhanced_queries: what the LLM call did
    enhanced_queries,  \* local enhanced_queries
    futures,           \* multi_strategy_search: one future per query
    all_results,       \* multi_strategy_search: the dict all_results
    results,           \* search_results / reranked_results / final_results
    confidence,        \* local confidence
    ret,               \* the CRAGResult returned, <<>> before the return
    stages,            \* history: the stages invoked by the call, in order
    ms_top_k,          \* multi_strategy_search: argument top_k
    failures,          \* history: the external calls that failed in this call
    raw_seen,          \* history: some index response held a raw match
    index_queries,     \* history: the vectors index.query was called with
    produced,          \* history: (content, score) of the collected results
    late_merged,       \* history: a result of an overrunning sub-search was merged
    call_log,          \* history: calls returned, their elapsed times and tokens
    embedding_cache,   \* cache_result: the dict cache of get_embeddings
    now,               \* time.time(), in seconds
    last_get,          \* history: the last get_embeddings call and what it did
    threads,           \* the request threads running crag_search concurrently
    conversation_history, \* db: the rows of table conversation_history
    db_clock,          \* db: rows inserted so far, the clock of the timestamps
    open_questions,    \* answer_student_query: questions stored and not yet answered
    last_answer,       \* history: what the last answer_student_query call returned
    message_feedback,  \* db: the rows of table message_feedback
    last_feedback      \* history: the last add_feedback call and what it did

\* the state outside one crag_search call of the engine
cache_vars == <<embedding_cache, now, last_get>>
conc_vars == <<threads>>
db_vars == <<conversation_history, db_clock, open_questions, last_answer,
            message_feedback, last_feedback>>
side_vars == <<cache_vars, conc_vars, db_vars>>

\* the engine and the locals of its crag_search call
engine_vars == <<search_engine, reranker, search_metrics, pc, query, user_context, top_k,
                 query_analysis, llm_reply, enhanced_queries, futures,
                 all_results, results, confidence, ret, stages, ms_top_k,
                 failures, raw_seen, index_queries, produced, late_merged, call_log>>

vars == <<search_engine, reranker, search_metrics, pc, query, user_context, top_k,
          query_analysis, llm_reply, enhanced_queries, futures, all_results,
          results, confidence, ret, stages, ms_top_k, failures, raw_seen, index_queries,
          produced, late_merged, call_log, side_vars>>

\* the calls made on the engine
Requests ==
    {[query |-> <<"visa", "process", "paisley">>,
      user_context |-> [is_international |-> TRUE, study_level |-> "masters"]],
     [query |-> <<"UWS", "library">>,
      user_context |-> [is_international |-> FALSE, study_level |-> None]],
     [query |-> <<"hello">>,
      user_context |-> [is_international |-> TRUE, study_level |-> None]]}

NoReply == [kind |-> None, items |-> <<>>]
NoAnalysis == [primary_type |-> None, all_types |-> <<>>, entities |-> {},
               word_count |-> 0]
NoContext == [is_international |-> FALSE, study_level |-> None]

\* the locals of a call before it starts
Locals ==
    /\ query_analysis = NoAnalysis
    /\ llm_reply = NoReply
    /\ futures = <<>>
    /\ all_results = <<>>
    /\ results = <<>>
    /\ confidence = None
    /\ ret = <<>>
    /\ stages = <<>>
    /\ failures = {}
    /\ raw_seen = FALSE
    /\ index_queries = {}
    /\ produced = {}
    /\ late_merged = FALSE

RECURSIVE GCD(_, _)
GCD(a, b) == IF b = 0 THEN a ELSE GCD(b, a % b)

\* a float that is a ratio of whole seconds, in lowest terms
Ratio(num, den) == LET g == GCD(num, den)
                   IN IF g = 0 THEN [num |-> 0, den |-> 1]
                      ELSE [num |-> num \div g, den |-> den \div g]

\* lines 314-319
InitialMetrics == [total_searches |-> 0,
                   cache_hits |-> 0,
                   average_response_time |-> Ratio(0, 1),
                   tokens_consumed |-> 0]

\* no call was logged yet
EmptyLog == [returned |-> 0, elapsed |-> 0, tokens |-> 0]

\* get_embeddings was not called yet
NoGet == [text |-> None, at |-> 0, had_entry |-> FALSE, age |-> 0, cached |-> <<>>,
          service_called |-> FALSE, value |-> <<>>]

\* the state of the cache, of the request threads and of the database while
\* a single crag_search call is looked at
\* no answer_student_query call has returned yet
NoAnswer == [user_id |-> None, message_id |-> 0]

\* no add_feedback call was made yet
NoFeedbackCall == [message_id |-> 0, user_id |-> None, args |-> <<>>, at |-> 0,
                   existing |-> <<>>, returned |-> 0]

SideIdle ==
    /\ embedding_cache = <<>>
    /\ now = 0
    /\ last_get = NoGet
    /\ threads = <<>>
    /\ conversation_history = <<>>
    /\ db_clock = 0
    /\ open_questions = {}
    /\ last_answer = NoAnswer
    /\ message_feedback = <<>>
    /\ last_feedback = NoFeedbackCall

\* tokens of the fixed text of system_prompt
PromptTokens == 10

\* line 389: len(self.tokenizer.encode(system_prompt + query)), one token
\* per word of the query
count_tokens(text) == PromptTokens + Len(text)

\* line 390: the tokens are added once the LLM call has returned
tokens_of_reply(text, reply) ==
    IF reply.kind = "api_error" THEN 0 ELSE count_tokens(text)

\* time.time() - start_time of a call, in seconds
SearchTimes == {16, 20}

\* lines 642-644: the running average over total_searches calls
updated_average(metrics, search_time) ==
    LET n == metrics.total_searches
        avg == metrics.average_response_time
    IN [metrics EXCEPT !.average_response_time =
           Ratio(avg.num * (n - 1) + search_time * avg.den, avg.den * n)]

\* __init__, lines 270-322
Init ==
    /\ reranker \in {"model", None}
    /\ search_engine = "engine"
    /\ search_metrics = InitialMetrics
    /\ call_log = EmptyLog
    /\ SideIdle
    /\ pc = "idle"
    /\ query = <<>>
    /\ user_context = NoContext
    /\ top_k = 0
    /\ enhanced_queries = <<>>
    /\ ms_top_k = 0
    /\ Locals

CRAGResult(res, conf, strategy, fallback) ==
    [results |-> res,
     confidence_level |-> conf,
     search_strategy_used |-> strategy,
     query_rewritten |-> enhanced_queries[1] # query,
     original_query |-> query,
     final_query |-> enhanced_queries[1],
     fallback_triggered |-> fallback]

\* mutant: the early return is missing
no_search_results_never(search_results) == FALSE

\* line 620: if not search_results
no_search_results(search_results) == search_results = <<>>

\* mutant: LOW counts as a fallback too
fallback_triggered_of_low(conf) == conf \in {"none", "low"}

\* line 654: fallback_triggered=confidence == ConfidenceLevel.NONE
fallback_triggered_of(conf) == conf = "none"

(***************************************************************************)
(* crag_search                                                             *)
(***************************************************************************)
\* lines 604-607: the call starts
Call ==
    /\ pc \in {"idle", "done", "raised"}
    /\ search_metrics.total_searches < MaxCalls
    /\ \E rq \in Requests, k \in 1..MaxTopK :
          /\ query' = rq.query
          /\ user_context' = rq.user_context
          /\ top_k' = k
    /\ search_metrics' = [search_metrics EXCEPT !.total_searches = @ + 1]
    /\ pc' = "analyze"
    /\ query_analysis' = NoAnalysis
    /\ llm_reply' = NoReply
    /\ enhanced_queries' = <<>>
    /\ futures' = <<>>
    /\ all_results' = <<>>
    /\ results' = <<>>
    /\ confidence' = None
    /\ ret' = <<>>
    /\ stages' = <<>>
    /\ ms_top_k' = 0
    /\ failures' = {}
    /\ raw_seen' = FALSE
    /\ index_queries' = {}
    /\ produced' = {}
    /\ late_merged' = FALSE
    /\ UNCHANGED <<search_engine, reranker>>
    /\ UNCHANGED <<call_log, side_vars>>

\* line 610
Analyze ==
    /\ pc = "analyze"
    /\ query_analysis' = analyze_query(query)
    /\ stages' = Append(stages, "analyze")
    /\ pc' = "rewrite"
    /\ UNCHANGED <<search_engine, reranker, search_metrics, query, user_context, top_k, llm_reply,
                   enhanced_queries, futures, all_results, results, confidence,
                   ret, ms_top_k, failures, raw_seen, index_queries, produced, late_merged>>
    /\ UNCHANGED <<call_log, side_vars>>

\* lines 614-615
Rewrite ==
    /\ pc = "rewrite"
    /\ \E reply \in LLMReplies :
          LET r == generate_enhanced_queries(query, query_analysis, reply)
          IN /\ llm_reply' = reply
             /\ IF r.raised
                THEN pc' = "raised" /\ UNCHANGED enhanced_queries
                ELSE pc' = "search" /\ enhanced_queries' = r.value
             /\ failures' = IF accepted_reply(reply) THEN failures
                            ELSE failures \cup {"llm"}
             /\ search_metrics' = [search_metrics EXCEPT !.tokens_consumed =
                                      @ + tokens_of_reply(query, reply)]
             /\ call_log' = [call_log EXCEPT !.tokens =
                                @ + tokens_of_reply(query, reply)]
    /\ stages' = Append(stages, "rewrite")
    /\ UNCHANGED <<search_engine, reranker, query, user_context, top_k,
                   query_analysis, futures, all_results, results, confidence,
                   ret, ms_top_k, raw_seen, index_queries, produced, late_merged>>
    /\ UNCHANGED side_vars

(***************************************************************************)
(* multi_strategy_search(enhanced_queries, top_k * 2)                      *)
(***************************************************************************)
\* line 618: crag_search calls multi_strategy_search(enhanced_queries, top_k * 2)
StartSearch ==
    /\ pc = "search"
    /\ ms_top_k' = top_k * 2
    /\ llm_reply' = NoReply
    /\ stages' = Append(stages, "search")
    /\ pc' = "submit"
    /\ UNCHANGED <<search_engine, reranker, search_metrics, query, user_context, top_k,
                   query_analysis, enhanced_queries, futures, all_results,
                   results, confidence, ret, failures, raw_seen, index_queries, produced,
                   late_merged>>
    /\ UNCHANGED <<call_log, side_vars>>

\* lines 422, 474-475: one future is submitted per query; ThreadPoolExecutor
\* raises ValueError for max_workers = 0
Submit ==
    /\ pc = "submit"
    /\ IF enhanced_queries = <<>>
       THEN pc' = "raised" /\ UNCHANGED futures
       ELSE pc' = "collect"
            /\ futures' = [i \in 1..Len(enhanced_queries) |-> "running"]
    /\ all_results' = <<>>
    /\ UNCHANGED <<search_engine, reranker, search_metrics, query, user_context, top_k,
                   query_analysis, llm_reply, enhanced_queries, results,
                   confidence, ret, stages, ms_top_k, failures, raw_seen, index_queries,
                   produced, late_merged>>
    /\ UNCHANGED <<call_log, side_vars>>

\* lines 479-487, the body of the as_completed loop for one future:
\* future.result() gives the list of the worker or raises what the worker
\* raised, which is logged
collect_future(all, r) ==
    IF r.raised THEN all ELSE merge_results(all, r.value)

\* lines 424-471 and 477-487: sub-search i runs to its end, after d seconds,
\* and as_completed hands its future to the loop, which merges its results.
\* A future is handed over only when it is done, so future.result(timeout=10)
\* never waits; futures are handed over in the order in which they complete.
SubSearch(i) ==
    /\ pc = "collect"
    /\ futures[i] = "running"
    /\ \E outcome \in SubSearchOutcomes(ms_top_k \div Len(enhanced_queries) + OverFetch),
          d \in Durations :
          LET r == search_single_query(outcome)
              failed == outcome.embedding = "failed" \/ outcome.index = "error"
          IN /\ futures' = [futures EXCEPT ![i] = IF failed THEN "failed" ELSE "collected"]
             /\ all_results' = collect_future(all_results, r)
             /\ produced' = produced \cup
                   {[content |-> x.content, score |-> x.score] : x \in Range(r.value)}
             /\ late_merged' = (late_merged \/
                   (d > SubSearchTimeout /\ all_results' # all_results))
             /\ raw_seen' = (raw_seen \/ outcome.matches # <<>>)
             /\ index_queries' = index_queries \cup
                   (IF index_queried(query_embedding_of(outcome))
                    THEN {query_embedding_of(outcome)} ELSE {})
             /\ failures' = failures
                   \cup (IF outcome.embedding = "failed" THEN {"embedding"} ELSE {})
                   \cup (IF outcome.index = "error" THEN {"index"} ELSE {})
    /\ UNCHANGED <<search_engine, reranker, search_metrics, pc, query, user_context, top_k,
                   query_analysis, llm_reply, enhanced_queries, results,
                   confidence, ret, stages, ms_top_k>>
    /\ UNCHANGED <<call_log, side_vars>>

\* lines 488-491: every future was handed over, the executor is shut down,
\* the merged results are sorted and cut
SearchReturn ==
    /\ pc = "collect"
    /\ \A i \in DOMAIN futures : futures[i] # "running"
    /\ results' = final_results(all_results, ms_top_k)
    /\ pc' = "searched"
    /\ UNCHANGED <<search_engine, reranker, search_metrics, query, user_context, top_k,
                   query_analysis, llm_reply, enhanced_queries, futures,
                   all_results, confidence, ret, stages, ms_top_k, failures,
                   raw_seen, index_queries, produced, late_merged>>
    /\ UNCHANGED <<call_log, side_vars>>

(***************************************************************************)
(* crag_search, after the search                                           *)
(***************************************************************************)
\* lines 620-630
ReturnEmpty ==
    /\ pc = "searched"
    /\ no_search_results(results)
    /\ ret' = <<CRAGResult(<<>>, "none", "multi_query_parallel", TRUE)>>
    /\ \E search_time \in SearchTimes :
          call_log' = [call_log EXCEPT !.returned = @ + 1,
                                       !.elapsed = @ + search_time]
    /\ pc' = "done"
    /\ futures' = <<>>
    /\ all_results' = <<>>
    /\ UNCHANGED <<search_engine, reranker, search_metrics, query, user_context, top_k,
                   query_analysis, llm_reply, enhanced_queries, results,
                   confidence, stages, ms_top_k, failures, raw_seen, index_queries, produced,
                   late_merged>>
    /\ UNCHANGED side_vars

\* line 633
Rerank ==
    /\ pc = "searched"
    /\ ~no_search_results(results)
    /\ \E outcome \in RerankOutcomes(Len(results)) :
          LET r == advanced_reranking(results, user_context, reranker, outcome)
          IN /\ IF r.raised
                THEN pc' = "raised" /\ UNCHANGED results
                ELSE pc' = "assess" /\ results' = r.value
             /\ failures' = failures
                   \cup (IF reranker # None /\ rerank_failed(results, outcome)
                         THEN {"rerank"} ELSE {})
                   \cup (IF reranker # None /\ rerank_failed(results, outcome)
                            /\ outcome.scores # <<>>
                         THEN {"rerank_mid"} ELSE {})
    /\ stages' = Append(stages, "rerank")
    /\ futures' = <<>>
    /\ all_results' = <<>>
    /\ UNCHANGED <<search_engine, reranker, search_metrics, query, user_context, top_k,
                   query_analysis, llm_reply, enhanced_queries, confidence, ret,
                   ms_top_k, raw_seen, index_queries, produced, late_merged>>
    /\ UNCHANGED <<call_log, side_vars>>

\* line 636
Assess ==
    /\ pc = "assess"
    /\ confidence' = assess_result_quality(query, results, query_analysis)
    /\ stages' = Append(stages, "assess")
    /\ pc' = "filter"
    /\ UNCHANGED <<search_engine, reranker, search_metrics, query, user_context, top_k,
                   query_analysis, llm_reply, enhanced_queries, futures,
                   all_results, results, ret, ms_top_k, failures, raw_seen, index_queries,
                   produced, late_merged>>
    /\ UNCHANGED <<call_log, side_vars>>

\* lines 639-655
Filter ==
    /\ pc = "filter"
    /\ results' = apply_corrective_filtering(results, confidence, top_k)
    /\ ret' = <<CRAGResult(results', confidence, "crag_parallel_rerank_context",
                           fallback_triggered_of(confidence))>>
    /\ \E search_time \in SearchTimes :
          /\ search_metrics' = updated_average(search_metrics, search_time)
          /\ call_log' = [call_log EXCEPT !.returned = @ + 1,
                                          !.elapsed = @ + search_time]
    /\ stages' = Append(stages, "filter")
    /\ pc' = "done"
    /\ UNCHANGED <<search_engine, reranker, query, user_context, top_k,
                   query_analysis, llm_reply, enhanced_queries, futures,
                   all_results, confidence, ms_top_k, failures, raw_seen, index_queries,
                   produced, late_merged>>
    /\ UNCHANGED side_vars

Next ==
    \/ Call
    \/ Analyze
    \/ Rewrite
    \/ StartSearch
    \/ Submit
    \/ \E i \in DOMAIN futures : SubSearch(i)
    \/ SearchReturn
    \/ ReturnEmpty
    \/ Rerank
    \/ Assess
    \/ Filter

Spec == Init /\ [][Next]_vars

(***************************************************************************)
(* multi_strategy_search(queries, top_k) called on its own                 *)
(***************************************************************************)
\* the query lists of a direct call: 1 to 3 queries
SearchQueryLists == {SubSeq(LLMQueries, 1, n) : n \in 1..MaxQueries}

InitMS ==
    /\ reranker = "model"
    /\ search_engine = "engine"
    /\ search_metrics = InitialMetrics
    /\ call_log = EmptyLog
    /\ SideIdle
    /\ query = <<>>
    /\ user_context = NoContext
    /\ top_k = 0
    /\ Locals
    /\ pc = "submit"
    /\ enhanced_queries \in SearchQueryLists
    /\ ms_top_k \in 1..(2 * MaxTopK)

NextMS ==
    \/ Submit
    \/ \E i \in DOMAIN futures : SubSearch(i)
    \/ SearchReturn

SpecMS == InitMS /\ [][NextMS]_vars

(***************************************************************************)
(* _apply_corrective_filtering(results, confidence, top_k) called on its   *)
(* own: results holds the argument, ret the list returned                  *)
(***************************************************************************)
\* the other variables of the engine during a direct call of one method
DirectCall ==
    /\ search_metrics = InitialMetrics
    /\ call_log = EmptyLog
    /\ SideIdle
    /\ enhanced_queries = <<>>
    /\ ms_top_k = 0
    /\ llm_reply = NoReply
    /\ futures = <<>>
    /\ all_results = <<>>
    /\ ret = <<>>
    /\ stages = <<>>
    /\ failures = {}
    /\ raw_seen = FALSE
    /\ index_queries = {}
    /\ produced = {}
    /\ late_merged = FALSE

\* ranking scores around the four thresholds 0.10, 0.20, 0.25, 0.30
FilterScores == {10, 20, 25, 30, 40}

\* the candidates of a direct call: reranked ones, whose vector score is
\* far above every threshold, and one that was never reranked
FilterCandidates ==
    {[content |-> <<"library", "paisley">>, score |-> 80, rerank_score |-> <<r>>] :
        r \in FilterScores}
    \cup {SearchResult(<<"library", "paisley">>, 40)}

FilterInputs == UNION {[1..n -> FilterCandidates] : n \in 0..MaxFilterLen}

InitFilter ==
    /\ DirectCall
    /\ reranker = "model"
    /\ search_engine = "engine"
    /\ query = <<>>
    /\ user_context = NoContext
    /\ query_analysis = NoAnalysis
    /\ pc = "call_filter"
    /\ results \in FilterInputs
    /\ confidence \in {"high", "medium", "low", "none"}
    /\ top_k \in 0..MaxFilterTopK

\* lines 657-688
FilterCall ==
    /\ pc = "call_filter"
    /\ ret' = <<apply_corrective_filtering(results, confidence, top_k)>>
    /\ pc' = "returned"
    /\ UNCHANGED <<search_engine, reranker, search_metrics, query, user_context, top_k,
                   query_analysis, llm_reply, enhanced_queries, futures,
                   all_results, results, confidence, stages, ms_top_k, failures,
                   raw_seen, index_queries, produced, late_merged, call_log, side_vars>>

NextFilter == FilterCall

SpecFilter == InitFilter /\ [][NextFilter]_vars

(***************************************************************************)
(* advanced_reranking(query, results, user_context) called on its own      *)
(***************************************************************************)
RerankContents == {<<"international", "visa", "fees">>, <<"library", "paisley">>}

RerankCandidates == {SearchResult(c, sc) : c \in RerankContents, sc \in IndexScores}

\* any list, in any order
RerankInputs == UNION {[1..n -> RerankCandidates] : n \in 0..MaxRerankLen}

InitRerank ==
    /\ DirectCall
    /\ reranker \in {"model", None}
    /\ search_engine = "engine"
    /\ \E rq \in Requests : query = rq.query /\ user_context = rq.user_context
    /\ query_analysis = NoAnalysis
    /\ pc = "call_rerank"
    /\ results \in RerankInputs
    /\ confidence = None
    /\ top_k = 0

\* lines 494-541
RerankCall ==
    /\ pc = "call_rerank"
    /\ \E outcome \in RerankOutcomes(Len(results)) :
          LET r == advanced_reranking(results, user_context, reranker, outcome)
          IN /\ IF r.raised
                THEN pc' = "raised" /\ UNCHANGED ret
                ELSE pc' = "returned" /\ ret' = <<r.value>>
             /\ failures' = IF results # <<>> /\ reranker # None
                               /\ rerank_failed(results, outcome)
                            THEN {"rerank"} ELSE {}
    /\ UNCHANGED <<search_engine, reranker, search_metrics, query, user_context, top_k,
                   query_analysis, llm_reply, enhanced_queries, futures,
                   all_results, results, confidence, stages, ms_top_k,
                   raw_seen, index_queries, produced, late_merged, call_log, side_vars>>

NextRerank == RerankCall

SpecRerank == InitRerank /\ [][NextRerank]_vars

(***************************************************************************)
(* assess_result_quality(query, results, query_analysis) called on its own *)
(***************************************************************************)
\* vector scores below, at and between the thresholds 0.3, 0.5, 0.7
AssessScores == {20, 30, 40, 50, 60, 70}

AssessContents == {<<"visa", "interview", "process">>,
                   <<"international", "visa", "fees">>,
                   <<"library", "paisley">>}

\* the first result: any content, vector score and rerank score (None
\* before reranking, else what the model and the boosts gave)
AssessTops ==
    {[content |-> c, score |-> sc, rerank_score |-> r] :
        c \in AssessContents, sc \in AssessScores,
        r \in {<<>>} \cup {<<x>> : x \in RerankScores}}

\* the results after the first, ranked below it
AssessFollowers(first) ==
    {[content |-> c, score |-> 20,
      rerank_score |-> IF first.rerank_score = <<>> THEN <<>> ELSE <<-50>>] :
        c \in AssessContents}

AssessInputs ==
    {<<>>} \cup UNION {{<<first>> \o rest :
                          rest \in UNION {[1..n -> AssessFollowers(first)] :
                                            n \in 0..(MaxAssessLen - 1)}} :
                       first \in AssessTops}

InitAssess ==
    /\ DirectCall
    /\ reranker = "model"
    /\ search_engine = "engine"
    /\ \E rq \in Requests : query = rq.query /\ user_context = rq.user_context
    /\ query_analysis = analyze_query(query)
    /\ pc = "call_assess"
    /\ results \in AssessInputs
    /\ confidence = None
    /\ top_k = 0

\* lines 543-601
AssessCall ==
    /\ pc = "call_assess"
    /\ ret' = <<assess_result_quality(query, results, query_analysis)>>
    /\ pc' = "returned"
    /\ UNCHANGED <<search_engine, reranker, search_metrics, query, user_context, top_k,
                   query_analysis, llm_reply, enhanced_queries, futures,
                   all_results, results, confidence, stages, ms_top_k, failures,
                   raw_seen, index_queries, produced, late_merged, call_log, side_vars>>

NextAssess == AssessCall

SpecAssess == InitAssess /\ [][NextAssess]_vars

(***************************************************************************)
(* get_embeddings behind cache_result(ttl_seconds=300)                     *)
(***************************************************************************)
\* an engine on which no crag_search call is running
EngineIdle ==
    /\ reranker = "model"
    /\ search_engine = "engine"
    /\ search_metrics = InitialMetrics
    /\ call_log = EmptyLog
    /\ pc = "idle"
    /\ query = <<>>
    /\ user_context = NoContext
    /\ top_k = 0
    /\ enhanced_queries = <<>>
    /\ ms_top_k = 0
    /\ Locals

\* @cache_result(ttl_seconds=300)
ttl_seconds == 300

\* the texts get_embeddings is called with
CacheTexts == {<<"visa", "process">>, <<"UWS", "library">>}

\* seconds that pass between two calls: two steps make 298, 299 or 300
TimeSteps == {149, 150}

MaxTime == MaxTicks * 150

\* line 127: md5 of the function name and the arguments (self, text)
cache_key(text) == <<"md5", "get_embeddings", text>>

\* lines 328-337: the first 512 components of the embedding of the text, or
\* [] when the embedding service raised
embedding_of(text, service) ==
    IF service = "ok" THEN <<"embedding", text>> ELSE <<>>

\* mutant: an entry that is exactly ttl_seconds old is still served
cache_fresh_inclusive(entry, t) == t - entry.timestamp <= ttl_seconds

\* line 131: time.time() - timestamp < ttl_seconds
cache_fresh(entry, t) == t - entry.timestamp < ttl_seconds

\* only the vectors of successful embedding calls are stored
cache_put_successes(cache, key, result, t) ==
    IF result = <<>> THEN cache
    ELSE [k \in DOMAIN cache \cup {key} |->
            IF k = key THEN [result |-> result, timestamp |-> t] ELSE cache[k]]

\* line 136: cache[key] = (result, time.time())
cache_put(cache, key, result, t) ==
    [k \in DOMAIN cache \cup {key} |->
        IF k = key THEN [result |-> result, timestamp |-> t] ELSE cache[k]]

\* a cache hit counted in search_metrics['cache_hits']
metrics_after_get_counted(metrics, hit) ==
    IF hit THEN [metrics EXCEPT !.cache_hits = @ + 1] ELSE metrics

\* lines 125-138: the wrapper logs a hit and returns; neither branch touches
\* self.search_metrics
metrics_after_get(metrics, hit) == metrics

\* lines 690-695
get_performance_metrics(metrics) ==
    [total_searches |-> metrics.total_searches,
     cache_hits |-> metrics.cache_hits,
     average_response_time |-> metrics.average_response_time,
     tokens_consumed |-> metrics.tokens_consumed,
     cache_hit_rate |-> Ratio(metrics.cache_hits, Max(1, metrics.total_searches))]

InitCache ==
    /\ EngineIdle
    /\ SideIdle

\* time passes
Tick ==
    /\ \E d \in TimeSteps :
          /\ now + d <= MaxTime
          /\ now' = now + d
    /\ UNCHANGED <<engine_vars, embedding_cache, last_get, conc_vars, db_vars>>

\* lines 125-138 around lines 326-337: one call of get_embeddings(text)
GetEmbeddings(text) ==
    LET key == cache_key(text)
        had == key \in DOMAIN embedding_cache
        hit == had /\ cache_fresh(embedding_cache[key], now)
    IN /\ IF hit
          THEN /\ UNCHANGED embedding_cache
               /\ last_get' = [text |-> text, at |-> now, had_entry |-> TRUE,
                                age |-> now - embedding_cache[key].timestamp,
                                cached |-> embedding_cache[key].result,
                                service_called |-> FALSE,
                                value |-> embedding_cache[key].result]
          ELSE \E service \in {"ok", "error"} :
                  LET result == embedding_of(text, service)
                  IN /\ embedding_cache' = cache_put(embedding_cache, key, result, now)
                     /\ last_get' = [text |-> text, at |-> now, had_entry |-> had,
                                      age |-> IF had
                                              THEN now - embedding_cache[key].timestamp
                                              ELSE 0,
                                      cached |-> IF had THEN embedding_cache[key].result
                                                 ELSE <<>>,
                                      service_called |-> TRUE,
                                      value |-> result]
       /\ search_metrics' = metrics_after_get(search_metrics, hit)
       /\ UNCHANGED <<search_engine, reranker, pc, query, user_context, top_k, query_analysis,
                      llm_reply, enhanced_queries, futures, all_results,
                      results, confidence, ret, stages, ms_top_k, failures,
                      raw_seen, index_queries, produced, late_merged, call_log>>
       /\ UNCHANGED <<now, conc_vars, db_vars>>

NextCache ==
    \/ Tick
    \/ \E text \in CacheTexts : GetEmbeddings(text)

SpecCache == InitCache /\ [][NextCache]_vars

(***************************************************************************)
(* crag_search run by several request threads on the one engine: the       *)
(* statements that read and write self.search_metrics.  An augmented       *)
(* assignment d[k] += v reads d[k], adds, and writes d[k]; no lock is      *)
(* held, so another thread can run between the read and the write.         *)
(***************************************************************************)
ThreadIds == 1..MaxThreads

\* a thread that was handed a request and has not started crag_search
NewThread(rq) == [pc |-> "start", query |-> rq.query, read |-> 0,
                  average |-> Ratio(0, 1)]

InitConc ==
    /\ EngineIdle
    /\ embedding_cache = <<>>
    /\ now = 0
    /\ last_get = NoGet
    /\ conversation_history = <<>>
    /\ db_clock = 0
    /\ open_questions = {}
    /\ last_answer = NoAnswer
    /\ message_feedback = <<>>
    /\ last_feedback = NoFeedbackCall
    /\ threads \in [ThreadIds -> {NewThread(rq) : rq \in Requests}]

\* line 607, the read of search_metrics['total_searches']
ReadTotal(t) ==
    /\ threads[t].pc = "start"
    /\ threads' = [threads EXCEPT ![t].pc = "write_total",
                                  ![t].read = search_metrics.total_searches]
    /\ UNCHANGED <<engine_vars, cache_vars, db_vars>>

\* line 607, the write of search_metrics['total_searches']
WriteTotal(t) ==
    /\ threads[t].pc = "write_total"
    /\ search_metrics' = [search_metrics EXCEPT !.total_searches = threads[t].read + 1]
    /\ threads' = [threads EXCEPT ![t].pc = "rewrite"]
    /\ UNCHANGED <<search_engine, reranker, pc, query, user_context, top_k,
                   query_analysis, llm_reply, enhanced_queries, futures,
                   all_results, results, confidence, ret, stages, ms_top_k,
                   failures, raw_seen, index_queries, produced, late_merged, call_log,
                   cache_vars, db_vars>>

\* lines 376-390: the LLM call raises, and no token is counted, or it
\* returns, and search_metrics['tokens_consumed'] is read
ReadTokens(t) ==
    /\ threads[t].pc = "rewrite"
    /\ \E reply \in {"api_error", "answered"} :
          threads' = IF reply = "api_error"
                     THEN [threads EXCEPT ![t].pc = "search"]
                     ELSE [threads EXCEPT ![t].pc = "write_tokens",
                                          ![t].read = search_metrics.tokens_consumed]
    /\ UNCHANGED <<engine_vars, cache_vars, db_vars>>

\* line 390, the write of search_metrics['tokens_consumed']
WriteTokens(t) ==
    /\ threads[t].pc = "write_tokens"
    /\ search_metrics' = [search_metrics EXCEPT !.tokens_consumed =
                             threads[t].read + count_tokens(threads[t].query)]
    /\ call_log' = [call_log EXCEPT !.tokens = @ + count_tokens(threads[t].query)]
    /\ threads' = [threads EXCEPT ![t].pc = "search"]
    /\ UNCHANGED <<search_engine, reranker, pc, query, user_context, top_k,
                   query_analysis, llm_reply, enhanced_queries, futures,
                   all_results, results, confidence, ret, stages, ms_top_k,
                   failures, raw_seen, index_queries, produced, late_merged,
                   cache_vars, db_vars>>

\* lines 618-644: the search finds no candidate and the call returns, or
\* the pipeline runs on and the new average is computed from the metrics
ReadAverage(t) ==
    /\ threads[t].pc = "search"
    /\ \E search_time \in SearchTimes, candidates \in BOOLEAN :
          /\ threads' = IF candidates
                        THEN [threads EXCEPT
                                ![t].pc = "write_average",
                                ![t].average = updated_average(search_metrics,
                                                  search_time).average_response_time]
                        ELSE [threads EXCEPT ![t].pc = "done"]
          /\ call_log' = [call_log EXCEPT
                            !.returned = IF candidates THEN @ ELSE @ + 1,
                            !.elapsed = @ + search_time]
    /\ UNCHANGED <<search_engine, reranker, search_metrics, pc, query, user_context, top_k,
                   query_analysis, llm_reply, enhanced_queries, futures,
                   all_results, results, confidence, ret, stages, ms_top_k,
                   failures, raw_seen, index_queries, produced, late_merged,
                   cache_vars, db_vars>>

\* lines 642-655: the average is written and the call returns
WriteAverage(t) ==
    /\ threads[t].pc = "write_average"
    /\ search_metrics' = [search_metrics EXCEPT
                             !.average_response_time = threads[t].average]
    /\ call_log' = [call_log EXCEPT !.returned = @ + 1]
    /\ threads' = [threads EXCEPT ![t].pc = "done"]
    /\ UNCHANGED <<search_engine, reranker, pc, query, user_context, top_k,
                   query_analysis, llm_reply, enhanced_queries, futures,
                   all_results, results, confidence, ret, stages, ms_top_k,
                   failures, raw_seen, index_queries, produced, late_merged,
                   cache_vars, db_vars>>

NextConc ==
    \E t \in ThreadIds :
       \/ ReadTotal(t)
       \/ WriteTotal(t)
       \/ ReadTokens(t)
       \/ WriteTokens(t)
       \/ ReadAverage(t)
       \/ WriteAverage(t)

SpecConc == InitConc /\ [][NextConc]_vars

(***************************************************************************)
(* db.py: ConversationManager.add_message as answer_student_query calls it *)
(***************************************************************************)
\* _cleanup_old_messages(session, user_id, keep_count=6)
keep_count == 6

UserIds == {"u1", "u2"}

\* the rows of one user, oldest first (the table is kept in insert order,
\* which is the order of the timestamps)
rows_of(rows, user_id) == SelectSeq(rows, LAMBDA r : r.user_id = user_id)

\* db.py lines 190-194: the message_id values of the keep_count most recent
\* rows of the user
messages_to_keep(rows, user_id) ==
    LET mine == rows_of(rows, user_id)
    IN {mine[i].message_id : i \in Max(1, Len(mine) - keep_count + 1)..Len(mine)}

\* db.py lines 198-201: the rows of the user whose message_id is not among
\* them are deleted
cleanup_old_messages(rows, user_id) ==
    SelectSeq(rows, LAMBDA r : r.user_id # user_id
                               \/ r.message_id \in messages_to_keep(rows, user_id))

\* db.py lines 166-176: the row is inserted and flushed, then the cleanup
\* runs in the same session.  nth numbers the messages of the user; it is
\* not a column of the table
add_message(rows, clock, user_id, sender, message_id) ==
    LET mine == rows_of(rows, user_id)
        row == [id |-> clock + 1, message_id |-> message_id, user_id |-> user_id,
                timestamp |-> clock + 1, sender |-> sender,
                nth |-> IF mine = <<>> THEN 1 ELSE mine[Len(mine)].nth + 1]
    IN cleanup_old_messages(Append(rows, row), user_id)

\* db.py lines 68-94: the optional columns of table message_feedback, which
\* are also the optional arguments of add_feedback.  message_id is a plain
\* String column: the table has no foreign key to conversation_history and
\* no relationship, so deleting conversation rows leaves its rows alone
FeedbackFields == {"feedback_type", "human_feedback", "human_feedback_score",
                   "human_feedback_text", "tools_used", "response_time_ms",
                   "confidence_level", "search_results_count", "question_text",
                   "answer_text"}

\* the arguments of a call in which no optional argument is passed
NoArgs == [f \in FeedbackFields |-> None]

\* db.py line 306: query(MessageFeedback).filter_by(message_id, user_id)
existing_feedback(rows, message_id, user_id) ==
    SelectSeq(rows, LAMBDA r : r.message_id = message_id /\ r.user_id = user_id)

\* every argument overwrites its column, None included
updated_feedback_overwriting(row, args, t) ==
    [c \in DOMAIN row |->
        IF c \in FeedbackFields THEN args[c]
        ELSE IF c = "feedback_timestamp" THEN t
        ELSE row[c]]

\* db.py lines 309-330: an argument that is not None overwrites the column,
\* and feedback_timestamp is set to the time of the call
updated_feedback(row, args, t) ==
    [c \in DOMAIN row |->
        IF c \in FeedbackFields /\ args[c] # None THEN args[c]
        ELSE IF c = "feedback_timestamp" THEN t
        ELSE row[c]]

\* db.py lines 334-347: the new row; feedback_id is the next value of the
\* sequence, tools_used is [] when it was not passed
new_feedback(rows, message_id, user_id, args, t) ==
    [c \in FeedbackFields \cup {"feedback_id", "message_id", "user_id",
                                "feedback_timestamp"} |->
        CASE c = "feedback_id" -> Len(rows) + 1
          [] c = "message_id" -> message_id
          [] c = "user_id" -> user_id
          [] c = "feedback_timestamp" -> t
          [] c = "tools_used" -> IF args[c] = None THEN "[]" ELSE args[c]
          [] OTHER -> args[c]]

\* db.py lines 285-353: the table after the call and the feedback_id returned
add_feedback(rows, message_id, user_id, args, t) ==
    LET existing == existing_feedback(rows, message_id, user_id)
    IN IF existing # <<>>
       THEN [rows |-> [i \in 1..Len(rows) |->
                         IF rows[i].feedback_id = existing[1].feedback_id
                         THEN updated_feedback(rows[i], args, t) ELSE rows[i]],
             feedback_id |-> existing[1].feedback_id]
       ELSE [rows |-> Append(rows, new_feedback(rows, message_id, user_id, args, t)),
             feedback_id |-> Len(rows) + 1]

\* what the call leaves in last_feedback
feedback_call(rows, message_id, user_id, args, t) ==
    [message_id |-> message_id, user_id |-> user_id, args |-> args, at |-> t,
     existing |-> existing_feedback(rows, message_id, user_id),
     returned |-> add_feedback(rows, message_id, user_id, args, t).feedback_id]

\* main.py lines 107-124: the feedback requests of the endpoint, a thumb and
\* a rating; question_text and answer_text are taken from the stored pair
FeedbackRequests ==
    {[NoArgs EXCEPT !.feedback_type = "thumbs_up", !.human_feedback = "True",
                    !.question_text = "question", !.answer_text = "answer"],
     [NoArgs EXCEPT !.feedback_type = "rating", !.human_feedback_score = "4",
                    !.human_feedback_text = "clear",
                    !.question_text = "question", !.answer_text = "answer"]}

InitDB ==
    /\ EngineIdle
    /\ SideIdle

\* whatsapp_service.py lines 979-989: a request of the user arrives, its
\* question is stored under a new Q&A id (uuid4)
StoreQuestion(user_id) ==
    /\ db_clock < MaxInserts
    /\ LET qa_message_id == db_clock + 1
       IN /\ conversation_history' =
                add_message(conversation_history, db_clock, user_id, "user",
                            qa_message_id)
          /\ open_questions' = open_questions
                \cup {[user_id |-> user_id, message_id |-> qa_message_id]}
    /\ db_clock' = db_clock + 1
    /\ UNCHANGED <<last_answer, message_feedback, last_feedback>>
    /\ UNCHANGED <<engine_vars, cache_vars, conc_vars>>

\* whatsapp_service.py lines 1128-1134: the answer is stored under the Q&A
\* id of its question
StoreAnswer(question) ==
    /\ db_clock < MaxInserts
    /\ question \in open_questions
    /\ conversation_history' =
          add_message(conversation_history, db_clock, question.user_id,
                      "assistant", question.message_id)
    /\ open_questions' = open_questions \ {question}
    /\ db_clock' = db_clock + 1
    /\ last_answer' = [user_id |-> question.user_id,
                       message_id |-> question.message_id]
    /\ UNCHANGED <<message_feedback, last_feedback>>
    /\ UNCHANGED <<engine_vars, cache_vars, conc_vars>>

\* whatsapp_service.py lines 1148-1172: the request failed, the error
\* message is stored under another new Q&A id
StoreErrorAnswer(question) ==
    /\ db_clock < MaxInserts
    /\ question \in open_questions
    /\ conversation_history' =
          add_message(conversation_history, db_clock, question.user_id,
                      "assistant", db_clock + 1)
    /\ open_questions' = open_questions \ {question}
    /\ db_clock' = db_clock + 1
    /\ last_answer' = [user_id |-> question.user_id, message_id |-> db_clock + 1]
    /\ UNCHANGED <<message_feedback, last_feedback>>
    /\ UNCHANGED <<engine_vars, cache_vars, conc_vars>>

\* main.py lines 88-130: feedback is submitted for a Q&A id of the user.
\* Both messages of the pair must be in the history of the user (the last 20
\* rows), else the request ends with 404 and nothing is stored
SubmitFeedback(user_id, message_id, request) ==
    /\ Len(message_feedback) < MaxFeedbackRows
        \/ existing_feedback(message_feedback, message_id, user_id) # <<>>
    /\ LET history == rows_of(conversation_history, user_id)
       IN /\ \E i \in 1..Len(history) :
                history[i].message_id = message_id /\ history[i].sender = "user"
          /\ \E i \in 1..Len(history) :
                history[i].message_id = message_id /\ history[i].sender = "assistant"
    /\ message_feedback' =
          add_feedback(message_feedback, message_id, user_id, request, db_clock).rows
    /\ last_feedback' =
          feedback_call(message_feedback, message_id, user_id, request, db_clock)
    /\ UNCHANGED <<conversation_history, db_clock, open_questions, last_answer>>
    /\ UNCHANGED <<engine_vars, cache_vars, conc_vars>>

NextDB ==
    \/ \E user_id \in UserIds : StoreQuestion(user_id)
    \/ \E question \in open_questions : StoreAnswer(question)
    \/ \E question \in open_questions : StoreErrorAnswer(question)

SpecDB == InitDB /\ [][NextDB]_vars

(***************************************************************************)
(* The requests of one user with the feedback endpoint: /whatsapp/query    *)
(* stores questions and answers, /feedback stores feedback on a stored     *)
(* pair.  The cleanup works per user, so one user shows all of it.         *)
(***************************************************************************)
FeedbackUser == "u1"

NextQA ==
    \/ StoreQuestion(FeedbackUser)
    \/ \E question \in open_questions : StoreAnswer(question)
    \/ \E question \in open_questions : StoreErrorAnswer(question)
    \/ \E message_id \in 1..MaxInserts, request \in FeedbackRequests :
          SubmitFeedback(FeedbackUser, message_id, request)

SpecQA == InitDB /\ [][NextQA]_vars

(***************************************************************************)
(* FeedbackManager.add_feedback called directly, one call after another    *)
(***************************************************************************)
\* the Q&A ids the calls are made for
FeedbackMessageIds == {1, 2}

\* the optional arguments of a call: the two requests of the endpoint, a
\* thumb down with an empty tool list, the search metadata alone, nothing
FeedbackArgs ==
    FeedbackRequests
    \cup {[NoArgs EXCEPT !.feedback_type = "thumbs_down", !.human_feedback = "False",
                         !.tools_used = "[]"],
          [NoArgs EXCEPT !.tools_used = "[enhanced_uws_search]",
                         !.response_time_ms = "120", !.confidence_level = "high",
                         !.search_results_count = "3"],
          NoArgs}

InitFeedback ==
    /\ EngineIdle
    /\ SideIdle

\* db.py lines 285-353: one call; a second passes between two calls
AddFeedback(message_id, user_id, args) ==
    /\ db_clock < MaxFeedbackCalls
    /\ db_clock' = db_clock + 1
    /\ message_feedback' =
          add_feedback(message_feedback, message_id, user_id, args, db_clock + 1).rows
    /\ last_feedback' =
          feedback_call(message_feedback, message_id, user_id, args, db_clock + 1)
    /\ UNCHANGED <<conversation_history, open_questions, last_answer>>
    /\ UNCHANGED <<engine_vars, cache_vars, conc_vars>>

NextFeedback ==
    \E message_id \in FeedbackMessageIds, user_id \in UserIds, args \in FeedbackArgs :
       AddFeedback(message_id, user_id, args)

SpecFeedback == InitFeedback /\ [][NextFeedback]_vars

(***************************************************************************)
(* The tool enhanced_uws_search(query, user_id)                            *)
(***************************************************************************)
\* result.content.strip(): the blanks before and after the text are removed
RECURSIVE lstrip(_)
lstrip(t) == IF t # <<>> /\ Head(t) = " " THEN lstrip(Tail(t)) ELSE t

RECURSIVE rstrip(_)
rstrip(t) == IF t # <<>> /\ t[Len(t)] = " " THEN rstrip(SubSeq(t, 1, Len(t) - 1)) ELSE t

strip(t) == rstrip(lstrip(t))

\* line 793: len(content) > 50
min_content_length == 50
\* line 790: crag_result.results[:3]
tool_top_results == 3
\* line 772: top_k=6
tool_top_k == 6

NO_RELEVANT_INFO == <<"NO_RELEVANT_INFO">>

RECURSIVE join(_)
\* "\n\n---\n\n".join(combined_results)
join(parts) ==
    IF Len(parts) = 1 THEN parts[1]
    ELSE parts[1] \o <<"---">> \o join(Tail(parts))

\* contents of 15, 50 and 51 characters, one of 50 characters behind a
\* blank, and one made of blanks only
ToolContents ==
    {<<"library", "paisley">>,
     <<"international", "students", "need", "a", "CAS", "before", "the", "visas">>,
     <<"international", "students", "need", "a", "CAS", "before", "their", "visa">>,
     <<" ", "international", "students", "need", "a", "CAS", "before", "the", "visas">>,
     <<" ", " ">>}

\* what search_engine.crag_search(query, user_context, top_k=6) can hand to
\* the tool: an exception, or a CRAGResult with its results and level
CragOutcomes ==
    {Raised}
    \cup {Returned([results |-> <<>>, confidence_level |-> "none"])}
    \cup {Returned([results |-> [i \in 1..Len(c) |-> SearchResult(c[i], 80)],
                    confidence_level |-> level]) :
             c \in UNION {[1..m -> ToolContents] : m \in 1..MaxToolLen},
             level \in {"high", "medium", "low", "none"}}

\* lines 790-801: the stripped contents of the first three results that are
\* longer than 50 characters
combined_results_of(crag_results) ==
    LET top == Prefix(crag_results, tool_top_results)
        stripped == [i \in 1..Len(top) |-> strip(top[i].content)]
    IN SelectSeq(stripped, LAMBDA c : c # <<>> /\ CharLen(c) > min_content_length)

\* the tool without the length test of line 793
enhanced_uws_search_any_length(engine, crag) ==
    IF engine = None THEN Returned(NO_RELEVANT_INFO)
    ELSE IF crag.raised THEN Returned(NO_RELEVANT_INFO)
    ELSE LET top == Prefix(crag.value.results, tool_top_results)
             combined == SelectSeq([i \in 1..Len(top) |-> strip(top[i].content)],
                                   LAMBDA c : c # <<>>)
         IN IF crag.value.results # <<>> /\ combined # <<>>
            THEN Returned(join(combined))
            ELSE Returned(NO_RELEVANT_INFO)

\* lines 748-827
enhanced_uws_search(engine, crag) ==
    IF engine = None THEN Returned(NO_RELEVANT_INFO)
    ELSE IF crag.raised THEN Returned(NO_RELEVANT_INFO)
    ELSE LET combined == combined_results_of(crag.value.results)
         IN IF crag.value.results # <<>> /\ combined # <<>>
            THEN Returned(join(combined))
            ELSE Returned(NO_RELEVANT_INFO)

InitTool ==
    /\ DirectCall
    /\ search_engine \in {"engine", None}
    /\ reranker = "model"
    /\ \E rq \in Requests : query = rq.query /\ user_context = NoContext
    /\ query_analysis = NoAnalysis
    /\ pc = "call_tool"
    /\ results = <<>>
    /\ confidence = None
    /\ top_k = tool_top_k

\* one call of the tool: results and confidence keep what crag_search
\* returned to it, failures whether crag_search raised
ToolCall ==
    /\ pc = "call_tool"
    /\ \E crag \in CragOutcomes :
          /\ search_engine = None => crag = Raised
          /\ ret' = <<enhanced_uws_search(search_engine, crag)>>
          /\ results' = IF search_engine = None \/ crag.raised THEN <<>>
                        ELSE crag.value.results
          /\ confidence' = IF search_engine = None \/ crag.raised THEN None
                           ELSE crag.value.confidence_level
          /\ failures' = IF search_engine # None /\ crag.raised THEN {"crag_search"}
                         ELSE {}
    /\ pc' = "returned"
    /\ UNCHANGED <<search_engine, reranker, search_metrics, query, user_context, top_k,
                   query_analysis, llm_reply, enhanced_queries, futures,
                   all_results, stages, ms_top_k, raw_seen, index_queries,
                   produced, late_merged, call_log, side_vars>>

NextTool == ToolCall

SpecTool == InitTool /\ [][NextTool]_vars

TypeOK ==
    /\ pc \in {"idle", "analyze", "rewrite", "search", "submit", "collect", "searched",
               "assess", "filter", "done", "raised", "call_filter", "call_rerank",
               "call_assess", "call_tool", "returned"}
    /\ Len(ret) <= 1

(***************************************************************************)
(* Properties                                                              *)
(***************************************************************************)
ConfidenceLevels == {"high", "medium", "low", "none"}
AllStages == <<"analyze", "rewrite", "search", "rerank", "assess", "filter">>
ContentsOf(seq) == {seq[i].content : i \in 1..Len(seq)}
Occurrences(seq, content) == Cardinality({i \in 1..Len(seq) : seq[i].content = content})

\* C1, as stated: whenever the index returned at least one raw match for one
\* of the rewritten queries, the CRAGResult returned holds at least one result.
C1_RawMatchGivesResult ==
    (pc = "done" /\ raw_seen) => Len(ret[1].results) >= 1

\* C1, amended: whenever at least one sub-search yields a SearchResult (a
\* match whose answer is longer than 2 characters), the CRAGResult returned
\* for top_k >= 1 holds at least one result.
C1_CandidateGivesResult ==
    (pc = "done" /\ produced # {}) => Len(ret[1].results) >= 1

\* a call with candidates of which none passes the threshold of its level
\* returned the first one or two of them
C1_Witness ==
    /\ pc = "done"
    /\ produced # {}
    /\ Len(ret[1].results) >= 1
    /\ \A i \in 1..Len(ret[1].results) :
          score_to_use(ret[1].results[i]) <= threshold_of(ret[1].confidence_level)

\* C2: no failure of the LLM, the embedding service, the index or the rerank
\* model makes crag_search raise; a call that ended returned a CRAGResult
\* with every field set.
C2_NeverRaises ==
    /\ pc # "raised"
    /\ pc = "done" =>
          /\ Len(ret) = 1
          /\ ret[1].confidence_level \in ConfidenceLevels
          /\ ret[1].fallback_triggered \in BOOLEAN
          /\ ret[1].query_rewritten \in BOOLEAN
          /\ ret[1].original_query = query
          /\ ret[1].final_query \in Range(enhanced_queries)
          /\ ret[1].search_strategy_used
                \in {"multi_query_parallel", "crag_parallel_rerank_context"}
          /\ ContentsOf(ret[1].results) \subseteq {p.content : p \in produced}

\* a call in which the LLM, an embedding call, an index query and the rerank
\* model all failed has returned
C2_Witness ==
    /\ pc = "done"
    /\ {"llm", "embedding", "index", "rerank"} \subseteq failures
    /\ Len(ret) = 1

\* C3: fallback_triggered is true exactly when confidence_level is NONE or
\* the multi-query search produced no candidate.
C3_FallbackIff ==
    pc = "done" =>
       (ret[1].fallback_triggered
          <=> (ret[1].confidence_level = "none" \/ produced = {}))

\* a call with candidates that was assessed NONE returned with the flag set
C3_Witness ==
    /\ pc = "done"
    /\ produced # {}
    /\ ret[1].results # <<>>
    /\ ret[1].confidence_level = "none"
    /\ ret[1].fallback_triggered

\* C4: the stages of a call run in the order analyze, rewrite, search,
\* rerank, assess, filter; a call whose search found no candidate ends after
\* the search with results = [], NONE and fallback_triggered, and rerank,
\* assess and filter are not invoked; any other call runs all six.
C4_StageOrder ==
    /\ Len(stages) <= Len(AllStages)
    /\ stages = SubSeq(AllStages, 1, Len(stages))
    /\ (pc = "searched" /\ produced = {}) => results = <<>>
    /\ (pc \in {"assess", "filter"}) => produced # {}
    /\ (pc = "done" /\ produced = {}) =>
          /\ stages = SubSeq(AllStages, 1, 3)
          /\ ret[1].results = <<>>
          /\ ret[1].confidence_level = "none"
          /\ ret[1].fallback_triggered
    /\ (pc = "done" /\ produced # {}) => stages = AllStages

\* a call whose index responses held raw matches but no candidate ended
\* after the search
C4_Witness ==
    /\ pc = "done"
    /\ produced = {}
    /\ raw_seen
    /\ stages = <<"analyze", "rewrite", "search">>

\* the LLM call raised or timed out, gave no content, or gave something that
\* is no list of at least 2 entries
LLMFailed(reply) ==
    \/ reply.kind \in {"api_error", "no_content", "not_json", "json_object"}
    \/ reply.kind = "json_array" /\ Len(reply.items) < 2

\* C5: when the LLM call fails or its reply is no list of at least 2 entries,
\* generate_enhanced_queries does not raise and returns 1 to 3 queries with
\* the original query among them.
C5_FallbackOnLLMFailure ==
    (llm_reply # NoReply /\ LLMFailed(llm_reply)) =>
       /\ pc = "search"
       /\ Len(enhanced_queries) \in 1..3
       /\ query \in Range(enhanced_queries)

\* the LLM call raised and the fallback gave three queries
C5_Witness ==
    /\ pc = "search"
    /\ llm_reply.kind = "api_error"
    /\ Len(enhanced_queries) = 3
    /\ enhanced_queries[1] = query

\* C6: generate_enhanced_queries returns 1 to 3 queries on every path: the
\* first 3 entries of a reply that is a list of at least 2, otherwise the
\* fallback list, which starts with the original query; the search never
\* starts with zero queries.
C6_OneToThreeQueries ==
    /\ pc \in {"search", "submit", "collect", "searched"} =>
          Len(enhanced_queries) \in 1..3
    /\ pc = "collect" => Len(futures) = Len(enhanced_queries)
    /\ (pc = "search" /\ llm_reply # NoReply) =>
          IF llm_reply.kind = "json_array" /\ Len(llm_reply.items) >= 2
          THEN /\ Len(enhanced_queries) = Min(3, Len(llm_reply.items))
               /\ \A i \in 1..Len(enhanced_queries) :
                     enhanced_queries[i] = llm_reply.items[i]
          ELSE enhanced_queries[1] = query

\* a reply of 4 entries was accepted and cut to 3
C6_Witness ==
    /\ pc = "search"
    /\ llm_reply.kind = "json_array"
    /\ Len(llm_reply.items) = 4
    /\ Len(enhanced_queries) = 3

\* two results of the sub-searches with the same content and different scores
DuplicatePairs ==
    {pq \in produced \X produced :
        pq[1].content = pq[2].content /\ pq[1].score > pq[2].score}

C8_DedupSortedCapped ==
    pc = "searched" =>
       /\ \A i, j \in 1..Len(results) :
             i # j => results[i].content # results[j].content
       /\ \A i \in 1..(Len(results) - 1) : results[i].score >= results[i + 1].score
       /\ Len(results) <= ms_top_k

\* more distinct contents than top_k were found, with different scores, and
\* the output is full
C8_Witness ==
    /\ pc = "searched"
    /\ Cardinality({p.content : p \in produced}) > ms_top_k
    /\ Len(results) = ms_top_k
    /\ Len(results) >= 2
    /\ results[1].score > results[Len(results)].score

\* a sub-search fails in this step
SubSearchFails ==
    \E i \in DOMAIN futures : futures[i] = "running" /\ futures'[i] = "failed"

\* C9, step part: a sub-search that fails adds nothing to the merged results
\* and takes nothing from them, and does not make multi_strategy_search raise.
C9_FailureStep ==
    (pc = "collect" /\ SubSearchFails) =>
       /\ all_results' = all_results
       /\ produced' = produced
       /\ pc' = "collect"

\* C9, state part: every result of the sub-searches that did not fail is
\* merged (under its content, with at least its score) and returned, up to
\* the cut to top_k; multi_strategy_search does not raise.
C9_OthersMerged ==
    /\ pc # "raised"
    /\ pc \in {"collect", "searched"} =>
          \A p \in produced :
             \E j \in 1..Len(all_results) :
                /\ all_results[j].value.content = p.content
                /\ all_results[j].value.score >= p.score
    /\ pc = "searched" =>
          \A p \in produced :
             \/ \E i \in 1..Len(results) :
                   results[i].content = p.content /\ results[i].score >= p.score
             \/ /\ Len(results) = ms_top_k
                /\ \A i \in 1..Len(results) : results[i].score >= p.score

\* C9: a failed sub-search contributes no result, the results of every other
\* sub-search are still merged and returned, and multi_strategy_search does
\* not raise.
C9_FailedSubSearchContributesNothing ==
    []C9_OthersMerged /\ [][C9_FailureStep]_vars

\* an embedding call and an index query failed and the results of another
\* sub-search were returned
C9_Witness ==
    /\ pc = "searched"
    /\ failures = {"embedding", "index"}
    /\ results # <<>>

\* C10: the results of a sub-search that ran past its timeout are discarded:
\* none of them is merged into what multi_strategy_search returns.
C10_OverrunDiscarded ==
    pc = "searched" => ~late_merged

\* the ranking score of a returned result: rerank_score when set, else score
RankingScore(result) == score_to_use(result)

NonIncreasing(seq) ==
    \A i \in 1..(Len(seq) - 1) : RankingScore(seq[i]) >= RankingScore(seq[i + 1])

\* a is b with some elements left out, the others in their order
IsSubsequence(a, b) ==
    \E keep \in SUBSET (1..Len(b)) :
       a = [i \in 1..Cardinality(keep) |->
               b[CHOOSE j \in keep : Cardinality({k \in keep : k < j}) = i - 1]]

\* C13: when the rerank model raises, at the call or after some scores were
\* applied, every result ends with rerank_score = score, no exception leaves
\* crag_search and the call returns a CRAGResult.
C13_RerankFailurePassThrough ==
    /\ "rerank" \in failures => pc \in {"assess", "filter", "done"}
    /\ ("rerank" \in failures /\ pc \in {"assess", "filter"}) =>
          \A i \in 1..Len(results) : results[i].rerank_score = <<results[i].score>>
    /\ ("rerank" \in failures /\ pc = "done") =>
          /\ Len(ret) = 1
          /\ ret[1].results # <<>>
          /\ \A i \in 1..Len(ret[1].results) :
                ret[1].results[i].rerank_score = <<ret[1].results[i].score>>

\* the model failed after it had scored some of at least two results, and
\* the call returned
C13_Witness ==
    /\ pc = "done"
    /\ "rerank_mid" \in failures
    /\ Len(ret[1].results) >= 2

\* C17, state part: the results of a returned CRAGResult are in
\* non-increasing order of their ranking score.
C17_Sorted ==
    /\ pc \in {"assess", "filter"} => NonIncreasing(results)
    /\ pc = "done" => NonIncreasing(ret[1].results)

\* C17, step part: the corrective filter keeps the relative order of the
\* reranked list.
C17_FilterKeepsOrder ==
    pc = "filter" => IsSubsequence(results', results)

\* C17: every CRAGResult returned holds its results in score-descending
\* order of the ranking score (rerank_score when set, otherwise score), and
\* the corrective filter keeps the relative order of the reranked list.
C17_ResultsScoreDescending ==
    []C17_Sorted /\ [][C17_FilterKeepsOrder]_vars

\* the rerank model reordered the candidates and the filter dropped some:
\* the call returned two results whose vector scores are in the other order
C17_Witness ==
    /\ pc = "done"
    /\ "rerank" \notin failures
    /\ Len(ret[1].results) >= 2
    /\ ret[1].results[1].score < ret[1].results[2].score
    /\ RankingScore(ret[1].results[1]) > RankingScore(ret[1].results[2])

\* C18: after the calls made so far have returned, total_searches is their
\* number and average_response_time is the mean of their elapsed times,
\* whichever path each call took.
C18_AverageIsMean ==
    pc = "done" =>
       /\ search_metrics.total_searches = call_log.returned
       /\ search_metrics.average_response_time.num * call_log.returned
             = call_log.elapsed * search_metrics.average_response_time.den

\* a holds the results of b, each once, whatever their rerank_score
IsPermutation(a, b) ==
    /\ Len(a) = Len(b)
    /\ \E f \in [1..Len(a) -> 1..Len(a)] :
          /\ \A i, j \in 1..Len(a) : i # j => f[i] # f[j]
          /\ \A i \in 1..Len(a) :
                a[i].content = b[f[i]].content /\ a[i].score = b[f[i]].score

AllReranked(seq) == \A i \in 1..Len(seq) : seq[i].rerank_score # <<>>

NonIncreasingRerank(seq) ==
    \A i \in 1..(Len(seq) - 1) : seq[i].rerank_score[1] >= seq[i + 1].rerank_score[1]

NonIncreasingScore(seq) ==
    \A i \in 1..(Len(seq) - 1) : seq[i].score >= seq[i + 1].score

\* the rerank model was called and gave one score per result
ModelSucceeded == results # <<>> /\ reranker # None /\ "rerank" \notin failures

LevelRank(level) == CASE level = "none" -> 0
                      [] level = "low" -> 1
                      [] level = "medium" -> 2
                      [] level = "high" -> 3

\* the result list with the score of its first result set to s
WithTopScore(seq, s) == [seq EXCEPT ![1].score = s]

\* C14: for a fixed query, result list and query analysis, raising the
\* score of the first result (content matches, keyword hits and entities
\* unchanged) never lowers the confidence level of assess_result_quality,
\* in the order NONE < LOW < MEDIUM < HIGH.
C14_MonotoneInTopScore ==
    (pc = "returned" /\ results # <<>>) =>
       \A s \in AssessScores :
          s >= results[1].score =>
             LevelRank(assess_result_quality(query, WithTopScore(results, s),
                                             query_analysis))
                >= LevelRank(ret[1])

\* a list assessed LOW that is assessed HIGH once the score of its first
\* result is raised from 0.2 to 0.7
C14_Witness ==
    /\ pc = "returned"
    /\ results # <<>>
    /\ results[1].score = 20
    /\ ret[1] = "low"
    /\ assess_result_quality(query, WithTopScore(results, 70), query_analysis) = "high"

\* the cap of a confidence level
PolicyCap(level, k, n) ==
    CASE level = "high" -> k
      [] level = "medium" -> IF k \div 2 > 3 THEN k \div 2 ELSE 3
      [] level = "low" -> IF k \div 3 >= 3 THEN 3 ELSE IF k \div 3 >= 2 THEN k \div 3 ELSE 2
      [] level = "none" -> IF n < 2 THEN n ELSE 2

\* C15: for every list, confidence level and top_k >= 0 the list returned by
\* _apply_corrective_filtering is at most as long as the cap of the level:
\* HIGH top_k, MEDIUM max(3, top_k // 2), LOW min(3, max(2, top_k // 3)),
\* NONE min(2, len(results)).
C15_LengthWithinCap ==
    pc = "returned" => Len(ret[1]) <= PolicyCap(confidence, top_k, Len(results))

\* four candidates pass the MEDIUM threshold and three are returned
C15_Witness ==
    /\ pc = "returned"
    /\ confidence = "medium"
    /\ Len(results) = 4
    /\ \A i \in 1..4 : RankingScore(results[i]) > 25
    /\ top_k <= 7
    /\ Len(ret[1]) = 3

\* no candidate is strictly above the threshold of the level
NonePasses ==
    \A i \in 1..Len(results) :
       RankingScore(results[i]) <=
          (CASE confidence = "high" -> 30
             [] confidence = "medium" -> 25
             [] confidence = "low" -> 20
             [] confidence = "none" -> 10)

\* C16: for a non-empty list, any level and top_k >= 1 the filter returns
\* at least one result; when no candidate is strictly above the threshold
\* of the level, what it returns is taken from the first min(2, len)
\* candidates, in their order.
C16_NeverEmptyOverride ==
    (pc = "returned" /\ results # <<>> /\ top_k >= 1) =>
       /\ Len(ret[1]) >= 1
       /\ NonePasses =>
             /\ Len(ret[1]) <= 2
             /\ ret[1] = SubSeq(results, 1, Len(ret[1]))

\* three candidates at the HIGH threshold, none above it: the first two
\* are returned
C16_Witness ==
    /\ pc = "returned"
    /\ confidence = "high"
    /\ top_k >= 2
    /\ Len(results) = 3
    /\ \A i \in 1..3 : results[i].rerank_score = <<30>>
    /\ Len(ret[1]) = 2

\* C11: a get_embeddings call for a text whose entry was stored less than
\* 300 seconds earlier returns the cached vector without calling the
\* embedding service; a call made when the entry is 300 seconds old or
\* older calls the service again and replaces the entry; no value older
\* than the TTL is ever returned.
C11_CacheTTL ==
    last_get.text # None =>
       /\ (last_get.had_entry /\ last_get.age < 300) =>
             /\ ~last_get.service_called
             /\ last_get.value = last_get.cached
       /\ (last_get.had_entry /\ last_get.age >= 300) =>
             /\ last_get.service_called
             /\ cache_key(last_get.text) \in DOMAIN embedding_cache
             /\ embedding_cache[cache_key(last_get.text)].result = last_get.value
             /\ embedding_cache[cache_key(last_get.text)].timestamp = last_get.at
       /\ ~last_get.service_called => last_get.age < 300
       /\ \A k \in DOMAIN embedding_cache : embedding_cache[k].timestamp <= now

\* an entry that was exactly 300 seconds old and held a vector was replaced
\* by a call of the embedding service that failed
C11_Witness ==
    /\ last_get.text # None
    /\ last_get.had_entry
    /\ last_get.age = 300
    /\ last_get.cached # <<>>
    /\ last_get.service_called
    /\ last_get.value = <<>>

\* C19: when several crag_search calls run concurrently on the engine, no
\* metric update is lost: once the N calls have completed, total_searches
\* is N and tokens_consumed is the sum of the token counts the calls added.
C19_NoLostUpdate ==
    (\A t \in DOMAIN threads : threads[t].pc = "done") =>
       /\ search_metrics.total_searches = Len(threads)
       /\ search_metrics.tokens_consumed = call_log.tokens

\* C20: after every successful add_message at most 6 rows of
\* conversation_history exist for the user, and they are the most recent
\* messages of the user, also for question/answer pairs that share one
\* message_id.
C20_AtMostSixMostRecent ==
    \A user_id \in UserIds :
       LET mine == rows_of(conversation_history, user_id)
       IN /\ Len(mine) <= 6
          /\ \A i \in 1..(Len(mine) - 1) : mine[i + 1].nth = mine[i].nth + 1


(***************************************************************************)
(* C24: the vector index is never queried with an empty vector: a          *)
(* sub-search whose embedding call failed returns no result without        *)
(* calling index.query, so a call in which the index was never queried     *)
(* has collected nothing.                                                  *)
(***************************************************************************)
C24_NoQueryWithEmptyVector ==
    /\ <<>> \notin index_queries
    /\ index_queries = {} => (all_results = <<>> /\ produced = {} /\ ~raw_seen)
    /\ (pc \in {"searched", "done"} /\ index_queries = {}) =>
          (no_search_results(results) /\ (pc = "done" => ret[1].results = <<>>))

\* a call whose sub-searches all failed at the embedding has returned
C24_Witness ==
    /\ pc = "done"
    /\ "embedding" \in failures
    /\ index_queries = {}
    /\ Len(enhanced_queries) >= 2
    /\ ret[1].results = <<>>


(***************************************************************************)
(* C25: assess_result_quality returns NONE for an empty list; otherwise    *)
(* HIGH when topScore >= 0.7 and (contentMatches >= 2 or keywordHits >=    *)
(* 2); else MEDIUM when topScore >= 0.5 and (contentMatches >= 1 or        *)
(* keywordHits >= 1 or entitiesFound); else LOW when topScore >= 0.3 or    *)
(* contentMatches >= 1 or keywordHits >= 1; else NONE.                     *)
(***************************************************************************)
HighHolds ==
    /\ top_score_of(results[1]) >= 70
    /\ \/ content_matches_of(query, results) >= 2
       \/ relevant_keywords_found_of(query, results) >= 2

MediumHolds ==
    /\ top_score_of(results[1]) >= 50
    /\ \/ content_matches_of(query, results) >= 1
       \/ relevant_keywords_found_of(query, results) >= 1
       \/ entities_found_of(results, query_analysis)

LowHolds ==
    \/ top_score_of(results[1]) >= 30
    \/ content_matches_of(query, results) >= 1
    \/ relevant_keywords_found_of(query, results) >= 1

C25_DecisionOrder ==
    pc = "returned" =>
       /\ results = <<>> => ret[1] = "none"
       /\ results # <<>> =>
             /\ ret[1] = "high" <=> HighHolds
             /\ ret[1] = "medium" <=> (~HighHolds /\ MediumHolds)
             /\ ret[1] = "low" <=> (~HighHolds /\ ~MediumHolds /\ LowHolds)
             /\ ret[1] = "none" <=> (~HighHolds /\ ~MediumHolds /\ ~LowHolds)

\* MEDIUM was returned at exactly the threshold 0.5: one keyword hit and
\* two content matches, which with a score of 0.7 would have given HIGH
C25_Witness ==
    /\ pc = "returned"
    /\ results # <<>>
    /\ ret[1] = "medium"
    /\ top_score_of(results[1]) = 50
    /\ relevant_keywords_found_of(query, results) = 1
    /\ content_matches_of(query, results) >= 2

(***************************************************************************)
(* C26: the topScore used by assess_result_quality is the first result's   *)
(* rerank_score whenever rerank_score is present, for every value it can   *)
(* take, 0 and negative scores included, and the first result's score      *)
(* only when rerank_score is absent.                                       *)
(***************************************************************************)
RerankScoreIfPresent(result) ==
    IF result.rerank_score # <<>> THEN result.rerank_score[1] ELSE result.score

C26_TopScoreIsRerankScore ==
    (pc = "returned" /\ results # <<>>) =>
       /\ top_score_of(results[1]) = RerankScoreIfPresent(results[1])
       /\ ret[1] = confidence_of(RerankScoreIfPresent(results[1]),
                                 content_matches_of(query, results),
                                 relevant_keywords_found_of(query, results),
                                 entities_found_of(results, query_analysis))


(***************************************************************************)
(* C28: crag_search(query, ctx, top_k) never returns more than top_k       *)
(* results, for every top_k >= 1 and every confidence level reached.       *)
(***************************************************************************)
C28_AtMostTopK ==
    pc = "done" => Len(ret[1].results) <= top_k

\* C28 as the code has it: the list returned is no longer than the cap of
\* the confidence level reached (HIGH top_k, MEDIUM max(3, top_k // 2), LOW
\* min(3, max(2, top_k // 3)), NONE 2) nor than the 2 * top_k candidates
\* searched; that is at most top_k for every top_k >= 3 and at most 2 * top_k
\* for top_k 1 and 2, where more than top_k results do come back.
C28_AtMostPolicyCap ==
    pc = "done" =>
       /\ Len(ret[1].results) <= 2 * top_k
       /\ ret[1].results # <<>> =>
             Len(ret[1].results) <= PolicyCap(ret[1].confidence_level, top_k, 2)
       /\ top_k >= 3 => Len(ret[1].results) <= top_k
       /\ top_k < 3 => Len(ret[1].results) <= 3

\* a call with top_k = 2 has returned 3 results at MEDIUM
C28_Witness ==
    /\ pc = "done"
    /\ top_k = 2
    /\ ret[1].confidence_level = "medium"
    /\ Len(ret[1].results) = 3


(***************************************************************************)
(* C29: a failed embedding call, which yields the empty vector, is stored  *)
(* in the cache like a successful one: every get_embeddings call for the   *)
(* same text during the following 300 seconds returns the empty vector     *)
(* without calling the embedding service, so a sub-search for that text    *)
(* does not query the index; once the entry is 300 seconds old the         *)
(* service is called again.                                                *)
(***************************************************************************)
C29_FailureIsCached ==
    last_get.text # None =>
       /\ (last_get.service_called /\ last_get.value = <<>>) =>
             /\ cache_key(last_get.text) \in DOMAIN embedding_cache
             /\ embedding_cache[cache_key(last_get.text)] =
                   [result |-> <<>>, timestamp |-> last_get.at]
       /\ (last_get.had_entry /\ last_get.cached = <<>> /\ last_get.age < ttl_seconds) =>
             /\ ~last_get.service_called
             /\ last_get.value = <<>>
             /\ ~index_queried(last_get.value)
       /\ (last_get.had_entry /\ last_get.cached = <<>> /\ last_get.age >= ttl_seconds) =>
             last_get.service_called

\* a call made 299 seconds after a failed one was served the empty vector
C29_Witness ==
    /\ last_get.text # None
    /\ last_get.had_entry
    /\ last_get.cached = <<>>
    /\ last_get.age = 299
    /\ ~last_get.service_called
    /\ last_get.value = <<>>

(***************************************************************************)
(* C30: no operation of the engine modifies search_metrics['cache_hits']:  *)
(* it is 0 in every reachable state and get_performance_metrics reports    *)
(* cache_hit_rate = 0, however many embedding calls the cache served.      *)
(***************************************************************************)
C30_CacheHitsStaysZero ==
    /\ search_metrics.cache_hits = 0
    /\ get_performance_metrics(search_metrics).cache_hits = 0
    /\ get_performance_metrics(search_metrics).cache_hit_rate = Ratio(0, 1)

\* an embedding call has just been served from the cache
C30_Witness ==
    /\ last_get.text # None
    /\ last_get.had_entry
    /\ ~last_get.service_called
    /\ last_get.value # <<>>
    /\ get_performance_metrics(search_metrics).cache_hit_rate = Ratio(0, 1)


(***************************************************************************)
(* C23: enhanced_uws_search never raises, and whenever crag_search         *)
(* returns at least one result, at any confidence level, the tool returns  *)
(* the contents of the top results joined together; it returns             *)
(* 'NO_RELEVANT_INFO' only when the engine is unavailable, the search      *)
(* raised, or the search returned no results.                              *)
(***************************************************************************)
ToolFallbackCause ==
    \/ search_engine = None
    \/ "crag_search" \in failures
    \/ results = <<>>

C23_ResultsAlwaysReturned ==
    pc = "returned" =>
       /\ ~ret[1].raised
       /\ ret[1].value = NO_RELEVANT_INFO <=> ToolFallbackCause
       /\ ~ToolFallbackCause =>
             \E n \in 1..Min(3, Len(results)) :
                ret[1].value = join([i \in 1..n |-> strip(results[i].content)])

\* C23 as the code has it: the tool never raises; it returns the stripped
\* contents, joined in rank order, of those of the first three results whose
\* stripped content is longer than 50 characters, and 'NO_RELEVANT_INFO'
\* when the engine is unavailable, the search raised, the search returned
\* no results, or none of the first three results has such a content.
LongEnough(result) == CharLen(strip(result.content)) > 50

AcceptedRanks == {i \in 1..Min(3, Len(results)) : LongEnough(results[i])}

RECURSIVE JoinedRanks(_)
JoinedRanks(ranks) ==
    LET first == CHOOSE i \in ranks : \A j \in ranks : i <= j
    IN IF ranks \ {first} = {} THEN strip(results[first].content)
       ELSE strip(results[first].content) \o <<"---">> \o JoinedRanks(ranks \ {first})

C23_LongTopResultsReturned ==
    pc = "returned" =>
       /\ ~ret[1].raised
       /\ ret[1].value = NO_RELEVANT_INFO <=> (ToolFallbackCause \/ AcceptedRanks = {})
       /\ (~ToolFallbackCause /\ AcceptedRanks # {}) =>
             ret[1].value = JoinedRanks(AcceptedRanks)

\* the search returned four results at confidence NONE; the first three are
\* 15 and 50 characters long or blank, the fourth is longer than 50
\* characters, and the tool returned 'NO_RELEVANT_INFO'
C23_Witness ==
    /\ pc = "returned"
    /\ search_engine # None
    /\ failures = {}
    /\ Len(results) = 4
    /\ confidence = "none"
    /\ \A i \in 1..3 : ~LongEnough(results[i])
    /\ CharLen(results[2].content) > 50
    /\ LongEnough(results[4])
    /\ ret[1].value = NO_RELEVANT_INFO


(***************************************************************************)
(* C21: whenever _cleanup_old_messages deletes older conversation          *)
(* messages of a user, the feedback rows stored for the deleted message    *)
(* ids are deleted as well: no message_feedback row is left for a          *)
(* message_id that has no remaining conversation_history row.              *)
(***************************************************************************)
C21_NoOrphanFeedback ==
    \A i \in 1..Len(message_feedback) :
       \E j \in 1..Len(conversation_history) :
          conversation_history[j].message_id = message_feedback[i].message_id

(***************************************************************************)
(* C22: for every call answer_student_query(user_id, message) that         *)
(* returns, the returned message_id is a Q&A id under which both the       *)
(* message of the user and the returned assistant response are stored      *)
(* for that user, on the success path and on the error path alike.         *)
(***************************************************************************)
StoredUnder(rows, user_id, message_id, sender) ==
    \E i \in 1..Len(rows) : /\ rows[i].user_id = user_id
                            /\ rows[i].message_id = message_id
                            /\ rows[i].sender = sender

C22_ReturnStep ==
    last_answer' # last_answer =>
       /\ StoredUnder(conversation_history', last_answer'.user_id,
                      last_answer'.message_id, "user")
       /\ StoredUnder(conversation_history', last_answer'.user_id,
                      last_answer'.message_id, "assistant")

C22_ReturnedIdHoldsThePair == [][C22_ReturnStep]_vars


(***************************************************************************)
(* C27: after any sequence of add_feedback calls executed one after        *)
(* another at most one message_feedback row exists per (message_id,        *)
(* user_id): a repeated call for an existing pair returns the existing     *)
(* feedback_id, overwrites only the fields passed as non-None and leaves   *)
(* the other fields unchanged.                                             *)
(***************************************************************************)
OneRowPerPair ==
    \A i, j \in 1..Len(message_feedback) :
       (/\ message_feedback[i].message_id = message_feedback[j].message_id
        /\ message_feedback[i].user_id = message_feedback[j].user_id) => i = j

\* the row of the pair of the last call
LastFeedbackRow ==
    existing_feedback(message_feedback, last_feedback.message_id,
                      last_feedback.user_id)[1]

\* the last call found a row of its pair
RepeatedCall == last_feedback.message_id # 0 /\ last_feedback.existing # <<>>

PassedFieldsOverwritten ==
    \A f \in FeedbackFields :
       LastFeedbackRow[f] = IF last_feedback.args[f] # None
                            THEN last_feedback.args[f]
                            ELSE last_feedback.existing[1][f]

C27_OnlyPassedFieldsChange ==
    /\ OneRowPerPair
    /\ RepeatedCall =>
          /\ last_feedback.returned = last_feedback.existing[1].feedback_id
          /\ LastFeedbackRow.feedback_id = last_feedback.returned
          /\ PassedFieldsOverwritten
          /\ LastFeedbackRow.feedback_timestamp =
                last_feedback.existing[1].feedback_timestamp

\* C27 as the code has it: at most one row per (message_id, user_id); a
\* repeated call for an existing pair returns the existing feedback_id,
\* overwrites the fields passed as non-None, leaves the other optional
\* fields unchanged, and sets feedback_timestamp to the time of the call
\* whatever was passed.  A first call for a pair inserts the row and returns
\* its new feedback_id.
C27_PassedFieldsAndTimestampChange ==
    /\ OneRowPerPair
    /\ RepeatedCall =>
          /\ last_feedback.returned = last_feedback.existing[1].feedback_id
          /\ LastFeedbackRow.feedback_id = last_feedback.returned
          /\ PassedFieldsOverwritten
          /\ LastFeedbackRow.feedback_timestamp = last_feedback.at
    /\ (last_feedback.message_id # 0 /\ last_feedback.existing = <<>>) =>
          /\ LastFeedbackRow.feedback_id = last_feedback.returned
          /\ \A i \in 1..Len(message_feedback) :
                message_feedback[i].feedback_id = last_feedback.returned =>
                   message_feedback[i] = LastFeedbackRow

\* a repeated call, made later than the one that stored the row, passed
\* some fields and left others out, for a row that held values in both
C27_Witness ==
    /\ RepeatedCall
    /\ last_feedback.at > last_feedback.existing[1].feedback_timestamp
    /\ LastFeedbackRow.feedback_timestamp = last_feedback.at
    /\ Len(message_feedback) = 2
    /\ \E f \in FeedbackFields :
          /\ last_feedback.args[f] = None
          /\ last_feedback.existing[1][f] \notin {None, "[]"}
    /\ \E f \in FeedbackFields :
          /\ last_feedback.args[f] # None
          /\ last_feedback.existing[1][f] # None
          /\ last_feedback.args[f] # last_feedback.existing[1][f]

====
